---- MODULE Spec2Model ----
(***************************************************************************)
(* Model of the 7TV emote usage tracker: EmoteService (freshness-bounded   *)
(* catalog cache and token matcher), StatisticsService (usage store with   *)
(* dirty-flag persistence and autosave timer), MessageHandler.handleMessage *)
(* and the startup and shutdown of index.ts.                               *)
(*                                                                         *)
(* Every `await` of the source is a scheduling point: the code between two *)
(* awaits is one atomic action (single-threaded cooperative scheduling).   *)
(***************************************************************************)
EXTENDS Integers, Sequences, FiniteSets, TLC

VARIABLES
    now,                 \* Date.now(), in milliseconds
    emoteCache,          \* EmoteService.emoteCache: channel key -> set of emote names
    emoteMetadataCache,  \* EmoteService.emoteMetadataCache: channel key -> (name -> EmoteMetadata)
    cacheTimestamps,     \* EmoteService.cacheTimestamps: channel key -> ms
    tasks,               \* in-flight fetchChannelEmotes / handleMessage calls
    channelStats,        \* StatisticsService.channelStats, in Map insertion order
    isDirty,             \* StatisticsService.isDirty
    statsFile,           \* the stats.json file on disk
    saves,               \* in-flight saveStats calls
    loads,               \* in-flight loadStats calls
    calls,               \* number of operations started so far (bounds the model)
    fetchCount,          \* history: registry fetches issued, per channel key
    lastFetchAt,         \* history: time of the last registry fetch issued, per channel key
    lastFailed,          \* history: last completed call of the channel failed transiently,
                         \*          with no cache population since that call started
    responses,           \* history: per channel key, the emote lists of the registry
                         \*          responses cached so far, in the order they were cached
    matchText,           \* SpecMatch: input text of findEmotesInMessage
    matchEmotes,         \* SpecMatch: input emote set of findEmotesInMessage
    matchResult,         \* SpecMatch: <<>> before the call, <<result>> after it
    saveInterval,        \* StatisticsService.saveInterval: TRUE while the timer is set
    timers,              \* number of setInterval timers of startAutoSave not yet cleared
    saveCaller,          \* who awaits each in-flight saveStats: "none", "tick", "stop"
                         \*   (shutdown's stopAutoSave) or "caller" (a direct call)
    main,                \* index.ts main(): "none", "load" (awaiting loadStats) or "ready"
    exited,              \* "none" while the process runs; after shutdown's exit:
                         \*   "clean" (nothing to flush), "written" or "failed"
    signals,             \* number of SIGINT / SIGTERM signals delivered
    ticks,               \* number of autosave timer ticks fired
    writesIssued,        \* history: fs.writeFile calls issued by saveStats
    writesDone,          \* history: fs.writeFile calls that resolved
    lastTick,            \* history: what the latest autosave tick found
    lastLoad,            \* history: how the latest loadStats ended
    savedStore,          \* history: the store the latest successful write serialized
    applied,             \* history: per channel key, the latest message (by arrival)
                         \*          whose recordEmoteUsage updates have been applied
    rejected,            \* history: the core functions whose promise has rejected
    preload,             \* the latest preloadChannelEmotes call: its channels, the
                         \*   fetches Promise.all still waits for, and how each ended
    query,               \* the latest query call of the store: its arguments, what it
                         \*   returned, and the channels the store held when it ran
    lastOp               \* history: the latest direct call of recordMessage,
                         \*   recordEmoteUsage, clearStats, startAutoSave or
                         \*   stopAutoSave, with its arguments

cacheVars == <<emoteCache, emoteMetadataCache, cacheTimestamps>>
storeVars == <<channelStats, isDirty>>
persistVars == <<statsFile, saves, loads>>
histVars == <<fetchCount, lastFetchAt, lastFailed, responses>>
matchVars == <<matchText, matchEmotes, matchResult>>
lifeVars == <<saveInterval, timers, saveCaller, main, exited, signals, ticks>>
auditVars == <<writesIssued, writesDone, lastTick, lastLoad, savedStore, applied>>
vars == <<now, cacheVars, tasks, storeVars, persistVars, calls, histVars, matchVars,
          lifeVars, auditVars, rejected, preload, query, lastOp>>

----------------------------------------------------------------------------
(* Bounds of the model *)

MaxTasks == 2        \* concurrently running fetchChannelEmotes / handleMessage calls
MaxCalls == 3        \* fetchChannelEmotes calls started in one behaviour of SpecCache
MaxMessages == 2     \* handleMessage calls started in one behaviour of Spec
MaxOps == 3          \* store operations started in one behaviour of SpecStore
MaxTicks == 2        \* clock advances in one behaviour
TicksPerTTL == 2     \* clock advances that make up one CACHE_DURATION
MaxLen == 5          \* longest text given to findEmotesInMessage in SpecMatch
MaxSaves == 2        \* concurrently running saveStats calls
MaxLoads == 1        \* concurrently running loadStats calls
MaxAutoTicks == 2    \* autosave timer ticks in one behaviour of SpecLife
MaxSignals == 1      \* shutdown signals in one behaviour of SpecLife
MaxFailing == 1      \* writes issued up to which one may fail, in SpecPersist
MaxQueries == 2      \* query calls of the store in one behaviour of SpecQuery
MaxLimit == 2        \* largest limit given to getTopEmotes / getTopEmotesForChannel

(* Program constants *)

CACHE_DURATION == 5 * 60 * 1000

TickMs == CACHE_DURATION \div TicksPerTTL
PreviousMs == TickMs       \* Date.now() during the previous run of the process
StartMs == 2 * TickMs      \* Date.now() when this process starts

----------------------------------------------------------------------------
(* Values *)

Tasks == 1..MaxTasks

ChannelNames == {"foo", "Foo", "bar"}

\* the channels the calls of SpecCache, Spec and SpecStore are made for
CacheChannels == {"Foo"}
MessageChannels == {"Foo"}
StoreChannels == {"Foo", "bar"}

\* String.prototype.toLowerCase on the channel names of the model
toLowerCase(s) == IF s = "Foo" THEN "foo" ELSE s

ChannelKeys == {toLowerCase(c) : c \in ChannelNames}

\* Texts and emote names are sequences of characters
Whitespace == {" ", "\t"}
Chars == {"A", "a", ","} \cup Whitespace

EmoteA == <<"A">>
EmoteLowerA == <<"a">>
EmoteNames == {EmoteA, EmoteLowerA}

\* Messages of the system model: "A A A" and "a, A\ta"
TextRepeated == <<"A", " ", "A", " ", "A">>
TextMixed == <<"a", ",", " ", "A", "\t", "a">>
MessageTexts == {TextRepeated, TextMixed}

\* emote_set.emotes of a 7TV response: SevenTVEmote reduced to the fields read
SevenTVEmote(name, id, animated) == [name |-> name, id |-> id, animated |-> animated]

Responses == { << >>,
               << SevenTVEmote(EmoteA, "id1", FALSE) >>,
               << SevenTVEmote(EmoteA, "id2", TRUE), SevenTVEmote(EmoteLowerA, "id3", FALSE) >> }

\* A JavaScript Map with string keys, without its iteration order
EmptyMap == [k \in {} |-> {}]
MapSet(m, k, v) == [x \in (DOMAIN m) \cup {k} |-> IF x = k THEN v ELSE m[x]]
MapHas(m, k) == k \in DOMAIN m

\* An optional value: {} is undefined, {v} is v
Undefined == {}
Some(v) == {v}
TheValue(o) == CHOOSE v \in o : TRUE

----------------------------------------------------------------------------
(* EmoteService *)

imageUrl(id) == <<"https://cdn.7tv.app/emote/", id, "/1x.webp">>

EmoteMetadata(emote) ==
    [id |-> emote.id, name |-> emote.name, imageUrl |-> imageUrl(emote.id),
     animated |-> emote.animated]

\* the loop of fetchChannelEmotes over data.emote_set.emotes
RECURSIVE ExtractNames(_, _)
ExtractNames(emotes, i) ==
    IF i > Len(emotes) THEN {}
    ELSE {emotes[i].name} \cup ExtractNames(emotes, i + 1)

RECURSIVE ExtractMetadata(_, _, _)
ExtractMetadata(emotes, i, acc) ==
    IF i > Len(emotes) THEN acc
    ELSE ExtractMetadata(emotes, i + 1,
                         MapSet(acc, emotes[i].name, EmoteMetadata(emotes[i])))

\* getCachedEmotes looking the maps up by channelName, not its lower case
getCachedEmotesRawKey(channelName, t) ==
    IF MapHas(emoteCache, channelName) /\ MapHas(cacheTimestamps, channelName)
       /\ cacheTimestamps[channelName] # 0
       /\ t - cacheTimestamps[channelName] < CACHE_DURATION
    THEN Some(emoteCache[channelName])
    ELSE Undefined

\* getCachedEmotes with the age comparison reversed
getCachedEmotesReversed(channelName, t) ==
    LET key == toLowerCase(channelName) IN
    IF MapHas(emoteCache, key) /\ MapHas(cacheTimestamps, key)
       /\ cacheTimestamps[key] # 0
       /\ t - cacheTimestamps[key] > CACHE_DURATION
    THEN Some(emoteCache[key])
    ELSE Undefined

\* getCachedEmotes: Some(set) on a hit, Undefined for null
getCachedEmotes(channelName, t) ==
    LET key == toLowerCase(channelName) IN
    IF MapHas(emoteCache, key) /\ MapHas(cacheTimestamps, key)
       /\ cacheTimestamps[key] # 0
       /\ t - cacheTimestamps[key] < CACHE_DURATION
    THEN Some(emoteCache[key])
    ELSE Undefined

\* message.split(/\s+/): the pieces between runs of whitespace; a text that
\* starts or ends with whitespace yields an empty first or last piece
RECURSIVE SplitFrom(_, _, _, _)
SplitFrom(message, i, cur, inRun) ==
    IF i > Len(message) THEN << cur >>
    ELSE IF message[i] \in Whitespace
         THEN IF inRun THEN SplitFrom(message, i + 1, cur, TRUE)
              ELSE << cur >> \o SplitFrom(message, i + 1, << >>, TRUE)
         ELSE SplitFrom(message, i + 1, Append(cur, message[i]), FALSE)

split(message) == SplitFrom(message, 1, << >>, FALSE)

SeqHas(s, x) == \E i \in 1..Len(s) : s[i] = x

\* findEmotesInMessage without the Set: one entry per occurrence
RECURSIVE FindLoopNoDedupe(_, _, _, _)
FindLoopNoDedupe(words, emotes, i, found) ==
    IF i > Len(words) THEN found
    ELSE FindLoopNoDedupe(words, emotes, i + 1,
             IF words[i] \in emotes THEN Append(found, words[i]) ELSE found)

\* the loop of findEmotesInMessage; found is the Set in insertion order
RECURSIVE FindLoop(_, _, _, _)
FindLoop(words, emotes, i, found) ==
    IF i > Len(words) THEN found
    ELSE FindLoop(words, emotes, i + 1,
             IF words[i] \in emotes /\ ~SeqHas(found, words[i])
             THEN Append(found, words[i]) ELSE found)

\* findEmotesInMessage comparing the words without regard to letter case
UpperChar(c) == IF c = "a" THEN "A" ELSE c
Upper(w) == [i \in 1..Len(w) |-> UpperChar(w[i])]

RECURSIVE FindLoopIgnoreCase(_, _, _, _)
FindLoopIgnoreCase(words, emotes, i, found) ==
    IF i > Len(words) THEN found
    ELSE FindLoopIgnoreCase(words, emotes, i + 1,
             IF (\E e \in emotes : Upper(e) = Upper(words[i])) /\ ~SeqHas(found, words[i])
             THEN Append(found, words[i]) ELSE found)

findEmotesInMessageIgnoreCase(message, emotes) ==
    FindLoopIgnoreCase(split(message), emotes, 1, << >>)

findEmotesInMessageNoDedupe(message, emotes) ==
    FindLoopNoDedupe(split(message), emotes, 1, << >>)

\* findEmotesInMessage taking every word for an emote
findEmotesInMessageAnyWord(message, emotes) ==
    FindLoop(split(message), {split(message)[i] : i \in 1..Len(split(message))}, 1, << >>)

\* findEmotesInMessage(message, emotes): Array.from(found)
findEmotesInMessage(message, emotes) == FindLoop(split(message), emotes, 1, << >>)

\* The three cache maps, as the outcomes of a fetch change them
Caches ==
    [emoteCache |-> emoteCache, emoteMetadataCache |-> emoteMetadataCache,
     cacheTimestamps |-> cacheTimestamps]

\* the caching step, mutated to keep the timestamp of a catalog already stored
FetchSucceededKeepTimestamp(caches, channelName, emotes, t) ==
    LET key == toLowerCase(channelName) IN
    [emoteCache |-> MapSet(caches.emoteCache, key, ExtractNames(emotes, 1)),
     emoteMetadataCache |->
         MapSet(caches.emoteMetadataCache, key, ExtractMetadata(emotes, 1, EmptyMap)),
     cacheTimestamps |-> IF MapHas(caches.cacheTimestamps, key) THEN caches.cacheTimestamps
                         ELSE MapSet(caches.cacheTimestamps, key, t)]

\* the caching step, mutated to add the response's emotes to the stored catalog
FetchSucceededMerging(caches, channelName, emotes, t) ==
    LET key == toLowerCase(channelName)
        oldNames == IF MapHas(caches.emoteCache, key) THEN caches.emoteCache[key] ELSE {}
        oldMetadata == IF MapHas(caches.emoteMetadataCache, key)
                       THEN caches.emoteMetadataCache[key] ELSE EmptyMap
    IN [emoteCache |-> MapSet(caches.emoteCache, key, oldNames \cup ExtractNames(emotes, 1)),
        emoteMetadataCache |->
            MapSet(caches.emoteMetadataCache, key, ExtractMetadata(emotes, 1, oldMetadata)),
        cacheTimestamps |-> MapSet(caches.cacheTimestamps, key, t)]

\* the caching step, mutated to leave alone a metadata map already stored
FetchSucceededStaleMetadata(caches, channelName, emotes, t) ==
    LET key == toLowerCase(channelName) IN
    [emoteCache |-> MapSet(caches.emoteCache, key, ExtractNames(emotes, 1)),
     emoteMetadataCache |->
         IF MapHas(caches.emoteMetadataCache, key) THEN caches.emoteMetadataCache
         ELSE MapSet(caches.emoteMetadataCache, key, ExtractMetadata(emotes, 1, EmptyMap)),
     cacheTimestamps |-> MapSet(caches.cacheTimestamps, key, t)]

\* fetchChannelEmotes after response.json(): extract, then "Cache the results"
FetchSucceeded(caches, channelName, emotes, t) ==
    LET key == toLowerCase(channelName) IN
    [emoteCache |-> MapSet(caches.emoteCache, key, ExtractNames(emotes, 1)),
     emoteMetadataCache |->
         MapSet(caches.emoteMetadataCache, key, ExtractMetadata(emotes, 1, EmptyMap)),
     cacheTimestamps |-> MapSet(caches.cacheTimestamps, key, t)]

\* the catch block, mutated to drop the channel's stored catalog
FetchFailedEvicting(caches, channelName, t) ==
    LET key == toLowerCase(channelName)
        Without(m) == [k \in (DOMAIN m) \ {key} |-> m[k]]
    IN [emoteCache |-> Without(caches.emoteCache),
        emoteMetadataCache |-> Without(caches.emoteMetadataCache),
        cacheTimestamps |-> Without(caches.cacheTimestamps)]

\* the catch block, mutated to drop every channel's stored catalog
FetchFailedClearingAll(caches, channelName, t) ==
    [emoteCache |-> EmptyMap, emoteMetadataCache |-> EmptyMap, cacheTimestamps |-> EmptyMap]

\* the catch block, mutated to cache the empty result
FetchFailedCaching(caches, channelName, t) == FetchSucceeded(caches, channelName, << >>, t)

\* fetchChannelEmotes on a thrown error (non-404 status, network, JSON): the
\* catch block returns new Set() and stores nothing
FetchFailed(caches, channelName, t) == caches

\* fetchChannelEmotes on response.status === 404: returns new Set() and stores nothing
FetchNotFound(caches, channelName, t) == caches

\* getEmoteMetadata: Some(metadata) or Undefined for null
getEmoteMetadata(channelName, emoteName) ==
    LET key == toLowerCase(channelName) IN
    IF MapHas(emoteMetadataCache, key) /\ MapHas(emoteMetadataCache[key], emoteName)
    THEN Some(emoteMetadataCache[key][emoteName])
    ELSE Undefined

----------------------------------------------------------------------------
(* StatisticsService: the usage store *)

\* channelStats is a Map: a sequence of ChannelStats in insertion order, keyed
\* by channelName; ChannelStats.emotes is a Map keyed by emoteName
ChannelIndex(cs, channel) ==
    IF \E i \in 1..Len(cs) : cs[i].channelName = channel
    THEN CHOOSE i \in 1..Len(cs) : cs[i].channelName = channel
    ELSE 0

EmoteIndex(emotes, emoteName) ==
    IF \E i \in 1..Len(emotes) : emotes[i].emoteName = emoteName
    THEN CHOOSE i \in 1..Len(emotes) : emotes[i].emoteName = emoteName
    ELSE 0

NewChannelStats(channel) ==
    [channelName |-> channel, totalMessages |-> 0, totalEmotesUsed |-> 0, emotes |-> << >>]

\* Map.set on a sequence of entries: replace in place, or append
ChannelsSet(cs, stats) ==
    IF ChannelIndex(cs, stats.channelName) = 0 THEN Append(cs, stats)
    ELSE [cs EXCEPT ![ChannelIndex(cs, stats.channelName)] = stats]

EmotesSet(emotes, emote) ==
    IF EmoteIndex(emotes, emote.emoteName) = 0 THEN Append(emotes, emote)
    ELSE [emotes EXCEPT ![EmoteIndex(emotes, emote.emoteName)] = emote]

EnsureChannel(cs, channel) ==
    IF ChannelIndex(cs, channel) = 0 THEN Append(cs, NewChannelStats(channel)) ELSE cs

\* the optional metadata argument of recordEmoteUsage
Metadata(emoteId, url, animated) == [emoteId |-> emoteId, imageUrl |-> url, animated |-> animated]

\* metadata?.field
OptField(metadata, field) ==
    IF metadata = Undefined THEN Undefined ELSE Some(TheValue(metadata)[field])

NewEmoteStats(channel, emoteName, metadata, t) ==
    [emoteName |-> emoteName, count |-> 0, lastUsed |-> t, channel |-> channel,
     emoteId |-> OptField(metadata, "emoteId"),
     imageUrl |-> OptField(metadata, "imageUrl"),
     animated |-> OptField(metadata, "animated")]

\* The store is the pair of fields the record operations change
Store == [channelStats |-> channelStats, isDirty |-> isDirty]

\* recordEmoteUsage without stats.totalEmotesUsed++
recordEmoteUsageNoTotal(store, channelName, emoteName, metadata, t) ==
    LET channel == toLowerCase(channelName)
        cs1 == EnsureChannel(store.channelStats, channel)
        ci == ChannelIndex(cs1, channel)
        emotes1 == IF EmoteIndex(cs1[ci].emotes, emoteName) = 0
                   THEN Append(cs1[ci].emotes, NewEmoteStats(channel, emoteName, metadata, t))
                   ELSE cs1[ci].emotes
        ei == EmoteIndex(emotes1, emoteName)
        emotes2 == [emotes1 EXCEPT ![ei].count = @ + 1, ![ei].lastUsed = t]
    IN [channelStats |-> [cs1 EXCEPT ![ci].emotes = emotes2], isDirty |-> TRUE]

\* recordEmoteUsage(channelName, emoteName, metadata?) at time t
\* recordEmoteUsage counting the usage as a message of the channel as well
recordEmoteUsageCountingMessage(store, channelName, emoteName, metadata, t) ==
    LET store1 == recordEmoteUsageNoTotal(store, channelName, emoteName, metadata, t)
        ci == ChannelIndex(store1.channelStats, toLowerCase(channelName))
    IN [channelStats |-> [store1.channelStats EXCEPT ![ci].totalEmotesUsed = @ + 1,
                                                     ![ci].totalMessages = @ + 1],
        isDirty |-> TRUE]

recordEmoteUsage(store, channelName, emoteName, metadata, t) ==
    LET channel == toLowerCase(channelName)
        cs1 == EnsureChannel(store.channelStats, channel)
        ci == ChannelIndex(cs1, channel)
        emotes1 == IF EmoteIndex(cs1[ci].emotes, emoteName) = 0
                   THEN Append(cs1[ci].emotes, NewEmoteStats(channel, emoteName, metadata, t))
                   ELSE cs1[ci].emotes
        ei == EmoteIndex(emotes1, emoteName)
        emotes2 == [emotes1 EXCEPT ![ei].count = @ + 1, ![ei].lastUsed = t]
    IN [channelStats |-> [cs1 EXCEPT ![ci].emotes = emotes2,
                                     ![ci].totalEmotesUsed = @ + 1],
        isDirty |-> TRUE]

\* recordMessage counting only for a channel that has a bucket already
recordMessageNoCreate(store, channelName) ==
    LET channel == toLowerCase(channelName)
        ci == ChannelIndex(store.channelStats, channel)
    IN IF ci = 0 THEN [channelStats |-> store.channelStats, isDirty |-> TRUE]
       ELSE [channelStats |-> [store.channelStats EXCEPT ![ci].totalMessages = @ + 1],
             isDirty |-> TRUE]

\* recordMessage without this.isDirty = true
recordMessageNotDirty(store, channelName) ==
    LET channel == toLowerCase(channelName)
        cs1 == EnsureChannel(store.channelStats, channel)
        ci == ChannelIndex(cs1, channel)
    IN [channelStats |-> [cs1 EXCEPT ![ci].totalMessages = @ + 1],
        isDirty |-> store.isDirty]

\* recordMessage using the name as given for the key
recordMessageRawKey(store, channelName) ==
    LET cs1 == EnsureChannel(store.channelStats, channelName)
        ci == ChannelIndex(cs1, channelName)
    IN [channelStats |-> [cs1 EXCEPT ![ci].totalMessages = @ + 1],
        isDirty |-> TRUE]

\* recordMessage(channelName)
recordMessage(store, channelName) ==
    LET channel == toLowerCase(channelName)
        cs1 == EnsureChannel(store.channelStats, channel)
        ci == ChannelIndex(cs1, channel)
    IN [channelStats |-> [cs1 EXCEPT ![ci].totalMessages = @ + 1],
        isDirty |-> TRUE]

\* clearStats()
clearStats(store) == [channelStats |-> << >>, isDirty |-> TRUE]

----------------------------------------------------------------------------
(* MessageHandler *)

\* the metadata handleMessage passes on: { emoteId: metadata.id, imageUrl, animated }
UsageMetadata(cached) ==
    IF cached = Undefined THEN Undefined
    ELSE Some(Metadata(TheValue(cached).id, TheValue(cached).imageUrl,
                       TheValue(cached).animated))

\* the loop of handleMessage over foundEmotes
RECURSIVE RecordFound(_, _, _, _, _)
RecordFound(store, channelName, foundEmotes, i, t) ==
    IF i > Len(foundEmotes) THEN store
    ELSE RecordFound(
             recordEmoteUsage(store, channelName, foundEmotes[i],
                              UsageMetadata(getEmoteMetadata(channelName, foundEmotes[i])), t),
             channelName, foundEmotes, i + 1, t)

----------------------------------------------------------------------------
(* Calls in flight.  pc is the await the call is suspended at:                *)
(*   "lookup"  await this.userService.getUserIdByName(channelName)            *)
(*   "fetch"   await fetch(...)                                               *)
(*   "json"    await response.json()                                          *)
(*   "resume"  fetchChannelEmotes has returned `emotes`; the caller's await   *)
(*             (handleMessage, preloadChannelEmotes) has not resumed yet      *)
(* outcome records how the call ended ("hit", "nouser", "notfound", "failed", *)
(* "fetched"); populated records that another call has stored a catalog for   *)
(* the channel since this call missed the cache; seq is the call's position   *)
(* in the order the calls were made, started the time it was made at.         *)

IdleTask ==
    [pc |-> "idle", kind |-> "none", channel |-> "none", text |-> << >>,
     emotes |-> {}, outcome |-> "none", populated |-> FALSE, seq |-> 0, started |-> 0]

\* the function each kind of call is made through, on top of fetchChannelEmotes
CallerOf(kind) == IF kind = "message" THEN "handleMessage" ELSE "preloadChannelEmotes"

\* a try block ending before response.json()
TryBlockWithoutJson ==
    [fetchChannelEmotes |-> {"lookup", "fetch"},
     saveStats |-> {"mkdir", "write"},
     loadStats |-> {"readFile", "parse", "rebuild"},
     handleMessage |-> {},
     preloadChannelEmotes |-> {}]

\* the suspension points and calls each function has inside its try block
TryBlock ==
    [fetchChannelEmotes |-> {"lookup", "fetch", "json"},
     saveStats |-> {"mkdir", "write"},
     loadStats |-> {"readFile", "parse", "rebuild"},
     handleMessage |-> {},
     preloadChannelEmotes |-> {}]

\* an error thrown at `at` inside function fn reaches fn's catch block
Catches(fn, at) == at \in TryBlock[fn]

Bump(counter, key) == [counter EXCEPT ![key] = @ + 1]

\* A continuation that is ready to run (a caller whose awaited promise has
\* resolved) runs before any new message, timer or I/O completion is handled
NoContinuationReady == \A u \in Tasks : tasks[u].pc # "resume"

\* a new call takes the first free slot
FreeSlot(t) == tasks[t].pc = "idle" /\ \A u \in Tasks : u < t => tasks[u].pc # "idle"

\* a fetchChannelEmotes call that has run up to its first await: it has
\* returned the cached set, or is suspended at the user-id lookup
EnteredCall(kind, channelName, text, seq) ==
    LET cached == getCachedEmotes(channelName, now)
    IN IF cached # Undefined
       THEN [pc |-> "resume", kind |-> kind, channel |-> channelName,
             text |-> text, emotes |-> TheValue(cached), outcome |-> "hit",
             populated |-> FALSE, seq |-> seq, started |-> now]
       ELSE [pc |-> "lookup", kind |-> kind, channel |-> channelName,
             text |-> text, emotes |-> {}, outcome |-> "none",
             populated |-> FALSE, seq |-> seq, started |-> now]

\* fetchChannelEmotes up to its first await, for the call in slot t
EnterFetch(t, kind, channelName, text) ==
    tasks' = [tasks EXCEPT ![t] = EnteredCall(kind, channelName, text, calls + 1)]

\* handleMessage(message) up to its await of getChannelEmotes
HandleMessage(t, channelName, text) ==
    /\ NoContinuationReady
    /\ FreeSlot(t)
    /\ calls < MaxMessages
    /\ calls' = calls + 1
    /\ LET store == recordMessage(Store, channelName) IN
         /\ channelStats' = store.channelStats
         /\ isDirty' = store.isDirty
    /\ EnterFetch(t, "message", channelName, text)
    /\ UNCHANGED <<now, cacheVars, persistVars, fetchCount, lastFetchAt, lastFailed,
                   responses, matchVars, query, lastOp, preload, lifeVars, auditVars,
                   rejected>>

\* fetchChannelEmotes(channelName) called directly (preloadChannelEmotes)
FetchChannelEmotes(t, channelName) ==
    /\ NoContinuationReady
    /\ FreeSlot(t)
    /\ calls < MaxCalls
    /\ calls' = calls + 1
    /\ EnterFetch(t, "fetch", channelName, << >>)
    /\ UNCHANGED <<now, cacheVars, storeVars, persistVars, fetchCount, lastFetchAt,
                   lastFailed, responses, matchVars, query, lastOp, preload, lifeVars,
                   auditVars, rejected>>

\* no preloadChannelEmotes call has been made
NoPreload ==
    [state |-> "none", channels |-> << >>, pending |-> {},
     outcome |-> [t \in Tasks |-> "none"], result |-> [t \in Tasks |-> {}]]

\* preloadChannelEmotes(channelNames): channelNames.map calls fetchChannelEmotes
\* for each channel in turn, each running to its first await (call i takes slot
\* i); then the call awaits Promise.all of the promises
PreloadChannelEmotes(channelNames) ==
    LET n == Len(channelNames) IN
    /\ NoContinuationReady
    /\ preload.state # "pending"
    /\ \A t \in Tasks : tasks[t].pc = "idle"
    /\ n <= MaxTasks
    /\ calls + n <= MaxCalls
    /\ calls' = calls + n
    /\ tasks' = [t \in Tasks |->
                    IF t <= n THEN EnteredCall("preload", channelNames[t], << >>, calls + t)
                    ELSE tasks[t]]
    /\ preload' = [state |-> IF n = 0 THEN "resolved" ELSE "pending",
                   channels |-> channelNames,
                   pending |-> 1..n,
                   outcome |-> [t \in Tasks |-> "none"],
                   result |-> [t \in Tasks |-> {}]]
    /\ UNCHANGED <<now, cacheVars, storeVars, persistVars, fetchCount, lastFetchAt,
                   lastFailed, responses, matchVars, query, lastOp, lifeVars,
                   auditVars, rejected>>

\* Promise.all sees the promise of the call in slot t fulfilled: it resolves
\* once it has seen every promise fulfilled
PromiseAllSettles(p, t, outcome, emotes) ==
    [p EXCEPT !.pending = @ \ {t},
              !.outcome[t] = outcome,
              !.result[t] = emotes,
              !.state = IF p.pending \ {t} = {} THEN "resolved" ELSE p.state]

\* the call returns `emotes` to its caller
Return(t, emotes, outcome) ==
    [tasks EXCEPT ![t].pc = "resume", ![t].emotes = emotes, ![t].outcome = outcome,
                  ![t].populated = FALSE]

\* getUserIdByName resolves: null, or an id and the registry fetch is issued
LookupDone(t, found) ==
    /\ NoContinuationReady
    /\ tasks[t].pc = "lookup"
    /\ LET key == toLowerCase(tasks[t].channel) IN
       IF found
       THEN /\ tasks' = [tasks EXCEPT ![t].pc = "fetch"]
            /\ fetchCount' = Bump(fetchCount, key)
            /\ lastFetchAt' = [lastFetchAt EXCEPT ![key] = now]
       ELSE /\ tasks' = Return(t, {}, "nouser")
            /\ UNCHANGED <<fetchCount, lastFetchAt>>
    /\ UNCHANGED <<now, cacheVars, storeVars, persistVars, calls, lastFailed,
                   responses, matchVars, query, lastOp, preload, lifeVars, auditVars,
                   rejected>>

\* a thrown error reaches the catch block of the call in slot t
Fail(t) ==
    LET key == toLowerCase(tasks[t].channel)
        caches == FetchFailed(Caches, tasks[t].channel, now)
    IN /\ emoteCache' = caches.emoteCache
       /\ emoteMetadataCache' = caches.emoteMetadataCache
       /\ cacheTimestamps' = caches.cacheTimestamps
       /\ tasks' = Return(t, {}, "failed")
       /\ lastFailed' = [lastFailed EXCEPT ![key] = ~tasks[t].populated]
       /\ UNCHANGED rejected

\* an error leaves fetchChannelEmotes uncaught: its promise rejects, and so does
\* the promise of the caller awaiting it outside any try block
Reject(t) ==
    /\ tasks' = [tasks EXCEPT ![t] = IdleTask]
    /\ rejected' = rejected \cup {"fetchChannelEmotes", CallerOf(tasks[t].kind)}
    /\ UNCHANGED <<cacheVars, lastFailed>>

\* an error is thrown at the await the call in slot t is suspended at
Throw(t) ==
    IF Catches("fetchChannelEmotes", tasks[t].pc) THEN Fail(t) ELSE Reject(t)

\* fetch(...) settles: a 2xx response, a 404, another status, or a rejection
FetchDone(t, outcome) ==
    /\ NoContinuationReady
    /\ tasks[t].pc = "fetch"
    /\ CASE outcome = "ok" ->
              /\ tasks' = [tasks EXCEPT ![t].pc = "json"]
              /\ UNCHANGED <<cacheVars, lastFailed, rejected>>
         [] outcome = "notfound" ->
              LET caches == FetchNotFound(Caches, tasks[t].channel, now) IN
              /\ emoteCache' = caches.emoteCache
              /\ emoteMetadataCache' = caches.emoteMetadataCache
              /\ cacheTimestamps' = caches.cacheTimestamps
              /\ tasks' = Return(t, {}, "notfound")
              /\ UNCHANGED <<lastFailed, rejected>>
         [] outcome \in {"status", "network"} -> Throw(t)
    /\ UNCHANGED <<now, storeVars, persistVars, calls, fetchCount, lastFetchAt,
                   responses, matchVars, query, lastOp, preload, lifeVars, auditVars>>

\* a timestamp taken when the call began
CachedAtStart(started, completed) == started

\* the timestamp of a catalog: Date.now() is read when the results are cached
CachedAt(started, completed) == completed

\* response.json() resolves with the emote list `emotes`: the catalog is cached
JsonDone(t, emotes) ==
    /\ NoContinuationReady
    /\ tasks[t].pc = "json"
    /\ LET key == toLowerCase(tasks[t].channel)
           caches == FetchSucceeded(Caches, tasks[t].channel, emotes,
                                    CachedAt(tasks[t].started, now))
       IN /\ emoteCache' = caches.emoteCache
          /\ emoteMetadataCache' = caches.emoteMetadataCache
          /\ cacheTimestamps' = caches.cacheTimestamps
          /\ tasks' = [u \in Tasks |->
                IF u = t THEN Return(t, caches.emoteCache[key], "fetched")[t]
                ELSE IF tasks[u].pc \in {"lookup", "fetch", "json"}
                        /\ toLowerCase(tasks[u].channel) = key
                     THEN [tasks[u] EXCEPT !.populated = TRUE]
                     ELSE tasks[u]]
          /\ lastFailed' = [lastFailed EXCEPT ![key] = FALSE]
          /\ responses' = [responses EXCEPT ![key] = Append(@, emotes)]
    /\ UNCHANGED <<now, storeVars, persistVars, calls, fetchCount, lastFetchAt,
                   matchVars, query, lastOp, preload, lifeVars, auditVars, rejected>>

\* response.json() rejects (or the extraction loop throws)
JsonFailed(t) ==
    /\ NoContinuationReady
    /\ tasks[t].pc = "json"
    /\ Throw(t)
    /\ UNCHANGED <<now, storeVars, persistVars, calls, fetchCount, lastFetchAt,
                   responses, matchVars, query, lastOp, preload, lifeVars, auditVars>>

\* the caller resumes: handleMessage matches and records; Promise.all of a
\* preload takes note of the fulfilled promise; a direct call ends
Resume(t) ==
    /\ tasks[t].pc = "resume"
    /\ tasks' = [tasks EXCEPT ![t] = IdleTask]
    /\ IF tasks[t].kind = "message"
       THEN LET foundEmotes == findEmotesInMessage(tasks[t].text, tasks[t].emotes)
                store == RecordFound(Store, tasks[t].channel, foundEmotes, 1, now)
                key == toLowerCase(tasks[t].channel)
            IN /\ channelStats' = store.channelStats
               /\ isDirty' = store.isDirty
               /\ applied' = IF Len(foundEmotes) > 0 /\ tasks[t].seq > applied[key]
                             THEN [applied EXCEPT ![key] = tasks[t].seq]
                             ELSE applied
       ELSE UNCHANGED <<storeVars, applied>>
    /\ preload' = IF tasks[t].kind = "preload"
                  THEN PromiseAllSettles(preload, t, tasks[t].outcome, tasks[t].emotes)
                  ELSE preload
    /\ UNCHANGED <<now, cacheVars, persistVars, calls, histVars, matchVars, query,
                   lastOp, lifeVars, writesIssued, writesDone, lastTick, lastLoad,
                   savedStore, rejected>>

\* time passes
Tick ==
    /\ NoContinuationReady
    /\ now < StartMs + MaxTicks * TickMs
    /\ now' = now + TickMs
    /\ UNCHANGED <<cacheVars, tasks, storeVars, persistVars, calls, histVars,
                   matchVars, query, lastOp, preload, lifeVars, auditVars, rejected>>

----------------------------------------------------------------------------
(* StatisticsService: persistence *)

RequiredFields == {"emoteName", "count", "lastUsed", "channel"}
OptionalFields == {"emoteId", "imageUrl", "animated"}

\* JSON.stringify of one EmoteStats: properties that are undefined are left out
EmoteToJson(e) ==
    LET present == {f \in OptionalFields : e[f] # Undefined} IN
    [f \in RequiredFields \cup present |-> IF f \in present THEN TheValue(e[f]) ELSE e[f]]

\* reading a property of a parsed object: undefined when the key is absent
JsonField(j, f) == IF f \in DOMAIN j THEN Some(j[f]) ELSE Undefined

\* the EmoteStats object loadStats puts into emotesMap
EmoteFromJson(j) ==
    [emoteName |-> j["emoteName"], count |-> j["count"], lastUsed |-> j["lastUsed"],
     channel |-> j["channel"],
     emoteId |-> JsonField(j, "emoteId"),
     imageUrl |-> JsonField(j, "imageUrl"),
     animated |-> JsonField(j, "animated")]

\* serializableData written without the channel's message total
ChannelToJsonNoTotal(channel) ==
    [channelName |-> channel.channelName,
     totalMessages |-> 0,
     totalEmotesUsed |-> channel.totalEmotesUsed,
     emotes |-> [i \in 1..Len(channel.emotes) |-> EmoteToJson(channel.emotes[i])]]

\* saveStats: serializableData, as JSON.stringify writes it
ChannelToJson(channel) ==
    [channelName |-> channel.channelName,
     totalMessages |-> channel.totalMessages,
     totalEmotesUsed |-> channel.totalEmotesUsed,
     emotes |-> [i \in 1..Len(channel.emotes) |-> EmoteToJson(channel.emotes[i])]]

Serialize(cs) == [i \in 1..Len(cs) |-> ChannelToJson(cs[i])]

\* loadStats: the inner loop building emotesMap
RECURSIVE LoadEmotes(_, _, _)
LoadEmotes(emotes, i, emotesMap) ==
    IF i > Len(emotes) THEN emotesMap
    ELSE LoadEmotes(emotes, i + 1, EmotesSet(emotesMap, EmoteFromJson(emotes[i])))

\* loadStats: the outer loop, starting from the cleared map
RECURSIVE LoadChannels(_, _, _)
LoadChannels(data, i, cs) ==
    IF i > Len(data) THEN cs
    ELSE LoadChannels(data, i + 1,
             ChannelsSet(cs, [channelName |-> data[i].channelName,
                              totalMessages |-> data[i].totalMessages,
                              totalEmotesUsed |-> data[i].totalEmotesUsed,
                              emotes |-> LoadEmotes(data[i].emotes, 1, << >>)]))

Deserialize(data) == LoadChannels(data, 1, << >>)

\* the store a previous run of the process left behind, and the file it wrote
PreviousStore ==
    recordEmoteUsage(
        recordEmoteUsage(
            recordMessage([channelStats |-> << >>, isDirty |-> FALSE], "Foo"),
            "Foo", EmoteA, Some(Metadata("id1", imageUrl("id1"), FALSE)), PreviousMs),
        "Foo", EmoteLowerA, Undefined, PreviousMs)

PreviousDocument == Serialize(PreviousStore.channelStats)

\* In-flight saveStats calls: pc is "mkdir" or "write", data the document
\* handed to fs.writeFile, store the channelStats it was serialized from
Saves == 1..MaxSaves
IdleSave == [pc |-> "idle", data |-> << >>, store |-> << >>]

\* a new saveStats call takes the first free slot
FreeSave(s) == saves[s].pc = "idle" /\ \A u \in Saves : u < s => saves[u].pc # "idle"

\* the caller awaiting saveStats in slot s resumes once it has resolved: an
\* autosave tick ends; stopAutoSave returns to shutdown, which calls process.exit(0)
SaveReturns(s, result) ==
    /\ saveCaller' = [saveCaller EXCEPT ![s] = "none"]
    /\ exited' = IF saveCaller[s] = "stop" THEN result ELSE exited
    /\ UNCHANGED <<saveInterval, timers, main, signals, ticks>>

\* an error thrown at `at` inside saveStats: the catch block logs it
SaveThrows(s, at) ==
    /\ saves' = [saves EXCEPT ![s] = IdleSave]
    /\ rejected' = IF Catches("saveStats", at) THEN rejected ELSE rejected \cup {"saveStats"}
    /\ SaveReturns(s, "failed")

AbsentFile == [state |-> "absent", data |-> << >>]
CorruptFile == [state |-> "corrupt", data |-> << >>]
\* text that JSON.parse accepts but that is not a list of channel records
MalformedFile == [state |-> "malformed", data |-> << >>]
WrittenFile(data) == [state |-> "ok", data |-> data]

\* saveStats() up to await fs.mkdir
SaveStats(s) ==
    /\ NoContinuationReady
    /\ FreeSave(s)
    /\ calls < MaxOps
    /\ calls' = calls + 1
    /\ saves' = [saves EXCEPT ![s].pc = "mkdir"]
    /\ UNCHANGED <<now, cacheVars, tasks, storeVars, statsFile, loads, histVars,
                   matchVars, query, lastOp, preload, lifeVars, auditVars, rejected>>

\* fs.mkdir settles: on success the store is serialized and fs.writeFile issued
MkdirDone(s, ok) ==
    /\ NoContinuationReady
    /\ saves[s].pc = "mkdir"
    /\ IF ok
       THEN /\ saves' = [saves EXCEPT ![s] =
                    [pc |-> "write", data |-> Serialize(channelStats), store |-> channelStats]]
            /\ writesIssued' = writesIssued + 1
            /\ UNCHANGED <<lifeVars, rejected>>
       ELSE /\ SaveThrows(s, "mkdir")
            /\ UNCHANGED writesIssued
    /\ UNCHANGED <<now, cacheVars, tasks, storeVars, statsFile, loads, calls, histVars,
                   matchVars, query, lastOp, preload, writesDone, lastTick, lastLoad,
                   savedStore, applied>>

\* the store after saveStats' writeFile, mutated to leave isDirty alone
AfterWriteKeepDirty(store) == store

\* the store after saveStats' writeFile has resolved: this.isDirty = false
AfterWrite(store) == [store EXCEPT !.isDirty = FALSE]

\* a write that reads the channels after the first from the live store when
\* it completes, instead of from the string it was handed
WrittenDocumentTorn(save, cs) ==
    [i \in 1..Len(cs) |->
        IF i = 1 /\ Len(save.data) >= 1 THEN save.data[1] ELSE ChannelToJson(cs[i])]

\* fs.writeFile(statsFile, JSON.stringify(serializableData)): the string was
\* built before the call, and it is what the file holds afterwards
WrittenDocument(save, cs) == save.data

\* fs.writeFile resolves: the file holds the document
WriteDone(s) ==
    /\ NoContinuationReady
    /\ saves[s].pc = "write"
    /\ statsFile' = WrittenFile(WrittenDocument(saves[s], channelStats))
    /\ LET store == AfterWrite(Store) IN
         /\ channelStats' = store.channelStats
         /\ isDirty' = store.isDirty
    /\ saves' = [saves EXCEPT ![s] = IdleSave]
    /\ writesDone' = writesDone + 1
    /\ savedStore' = Some(saves[s].store)
    /\ SaveReturns(s, "written")
    /\ UNCHANGED <<now, cacheVars, tasks, loads, calls, histVars, matchVars, query,
                   lastOp, preload, writesIssued, lastTick, lastLoad, applied,
                   rejected>>

\* fs.writeFile rejects: the file is left as it was, or truncated
WriteFailed(s, truncated) ==
    /\ NoContinuationReady
    /\ saves[s].pc = "write"
    /\ statsFile' = IF truncated THEN CorruptFile ELSE statsFile
    /\ SaveThrows(s, "write")
    /\ UNCHANGED <<now, cacheVars, tasks, storeVars, loads, calls, histVars, matchVars,
                   query, lastOp, preload, auditVars>>

\* loadStats() up to await fs.readFile
LoadStats ==
    /\ NoContinuationReady
    /\ loads < MaxLoads
    /\ calls < MaxOps
    /\ calls' = calls + 1
    /\ loads' = loads + 1
    /\ UNCHANGED <<now, cacheVars, tasks, storeVars, statsFile, saves, histVars,
                   matchVars, query, lastOp, preload, lifeVars, auditVars, rejected>>

\* the store after a successful loadStats, mutated to keep the existing channels
AfterLoadMerging(store, data) ==
    [channelStats |-> LoadChannels(data, 1, store.channelStats), isDirty |-> FALSE]

\* the store after a successful loadStats: clear, rebuild, this.isDirty = false
AfterLoad(store, data) ==
    [channelStats |-> Deserialize(data), isDirty |-> FALSE]

\* the store after a loadStats whose readFile or JSON.parse threw, had the
\* catch block marked the store as changed
AfterLoadFailedDirty(store) == [store EXCEPT !.isDirty = TRUE]

\* the store after a loadStats whose readFile or JSON.parse threw: the catch
\* block only logs
AfterLoadFailed(store) == store

\* the store after a loadStats whose rebuild loop threw on the parsed value:
\* this.channelStats.clear() has run, the assignment of isDirty has not
AfterLoadMalformed(store) == [store EXCEPT !.channelStats = << >>]

\* startAutoSave(): sets the timer unless one is set
startAutoSave(interval) == IF interval THEN interval ELSE TRUE

\* startAutoSave without its guard
AlreadyStartedNever(interval) == FALSE

\* startAutoSave: if (this.saveInterval) return
AlreadyStarted(interval) == interval

\* the timers running after startAutoSave: setInterval adds one
TimersAfterStart(interval, n) == IF AlreadyStarted(interval) THEN n ELSE n + 1

\* fs.readFile settles: ENOENT, a document, text JSON.parse rejects, or a
\* value the rebuild loop cannot iterate; then the caller resumes: main() goes
\* on to startAutoSave()
LoadDone ==
    /\ NoContinuationReady
    /\ loads > 0
    /\ loads' = loads - 1
    /\ LET store == CASE statsFile.state = "ok" -> AfterLoad(Store, statsFile.data)
                      [] statsFile.state = "malformed" -> AfterLoadMalformed(Store)
                      [] OTHER -> AfterLoadFailed(Store)
           at == CASE statsFile.state = "absent" -> "readFile"
                   [] statsFile.state = "malformed" -> "rebuild"
                   [] OTHER -> "parse"
       IN /\ channelStats' = store.channelStats
          /\ isDirty' = store.isDirty
          /\ rejected' = IF statsFile.state = "ok" \/ Catches("loadStats", at)
                          THEN rejected ELSE rejected \cup {"loadStats"}
    /\ lastLoad' = statsFile.state
    /\ IF main = "load"
       THEN /\ main' = "ready"
            /\ saveInterval' = startAutoSave(saveInterval)
            /\ timers' = TimersAfterStart(saveInterval, timers)
       ELSE UNCHANGED <<main, saveInterval, timers>>
    /\ UNCHANGED <<now, cacheVars, tasks, statsFile, saves, calls, histVars, matchVars,
                   query, lastOp, preload, saveCaller, exited, signals, ticks,
                   writesIssued, writesDone, lastTick, savedStore, applied>>

----------------------------------------------------------------------------
(* Direct calls of the store's public operations *)

MetadataArgs ==
    { Undefined,
      Some(Metadata("id1", imageUrl("id1"), FALSE)),
      Some(Metadata("id2", imageUrl("id2"), TRUE)) }

NoOp == [op |-> "", channelName |-> "", emoteName |-> << >>]

StoreCall(op, channelName, emoteName) ==
    [op |-> op, channelName |-> channelName, emoteName |-> emoteName]

RecordMessage(channelName) ==
    /\ NoContinuationReady
    /\ calls < MaxOps
    /\ calls' = calls + 1
    /\ LET store == recordMessage(Store, channelName) IN
         /\ channelStats' = store.channelStats
         /\ isDirty' = store.isDirty
    /\ lastOp' = StoreCall("recordMessage", channelName, << >>)
    /\ UNCHANGED <<now, cacheVars, tasks, persistVars, histVars, matchVars, query,
                   preload, lifeVars, auditVars, rejected>>

RecordEmoteUsage(channelName, emoteName, metadata) ==
    /\ NoContinuationReady
    /\ calls < MaxOps
    /\ calls' = calls + 1
    /\ LET store == recordEmoteUsage(Store, channelName, emoteName, metadata, now) IN
         /\ channelStats' = store.channelStats
         /\ isDirty' = store.isDirty
    /\ lastOp' = StoreCall("recordEmoteUsage", channelName, emoteName)
    /\ UNCHANGED <<now, cacheVars, tasks, persistVars, histVars, matchVars, query,
                   preload, lifeVars, auditVars, rejected>>

ClearStats ==
    /\ NoContinuationReady
    /\ calls < MaxOps
    /\ calls' = calls + 1
    /\ LET store == clearStats(Store) IN
         /\ channelStats' = store.channelStats
         /\ isDirty' = store.isDirty
    /\ lastOp' = StoreCall("clearStats", "", << >>)
    /\ UNCHANGED <<now, cacheVars, tasks, persistVars, histVars, matchVars, query,
                   preload, lifeVars, auditVars, rejected>>

----------------------------------------------------------------------------
(* StatisticsService: the query operations.  Each returns its result together *)
(* with the store as the call leaves it.                                      *)

\* the Map's own list of values handed out, so that sorting it reorders the Map
ArrayOfMap(values) == [items |-> values, shared |-> TRUE]

\* Array.from(map.values()): a new array of the Map's values in iteration order
ArrayFrom(values) == [items |-> values, shared |-> FALSE]

\* the values of a Map after an array made from them has been sorted in place
ValuesAfter(values, array) == IF array.shared THEN array.items ELSE values

\* a comparator putting the lower count first
compareCountAscending(a, b) == a.count - b.count

\* the comparator (a, b) => b.count - a.count
compareCount(a, b) == b.count - a.count

\* Array.prototype.sort is stable: x goes in front of the first element the
\* comparator orders after it, behind the elements it compares equal to
RECURSIVE InsertSorted(_, _, _)
InsertSorted(sorted, x, i) ==
    IF i > Len(sorted) THEN Append(sorted, x)
    ELSE IF compareCount(x, sorted[i]) < 0
         THEN SubSeq(sorted, 1, i - 1) \o << x >> \o SubSeq(sorted, i, Len(sorted))
         ELSE InsertSorted(sorted, x, i + 1)

RECURSIVE SortFrom(_, _, _)
SortFrom(items, i, sorted) ==
    IF i > Len(items) THEN sorted
    ELSE SortFrom(items, i + 1, InsertSorted(sorted, items[i], 1))

\* array.sort((a, b) => b.count - a.count), in place
sort(array) == [array EXCEPT !.items = SortFrom(array.items, 1, << >>)]

\* array.slice(0, limit), for limit >= 0
slice(array, limit) ==
    SubSeq(array.items, 1, IF limit < Len(array.items) THEN limit ELSE Len(array.items))

\* getChannelStats(channelName): the ChannelStats, or Undefined for null
getChannelStats(store, channelName) ==
    LET ci == ChannelIndex(store.channelStats, toLowerCase(channelName)) IN
    [result |-> IF ci = 0 THEN Undefined ELSE Some(store.channelStats[ci]),
     store |-> store]

\* getAllStats(): Array.from(this.channelStats.values())
getAllStats(store) ==
    [result |-> ArrayFrom(store.channelStats).items, store |-> store]

\* the loop of getTopEmotes: allEmotes.push(...Array.from(channelStats.emotes.values()))
RECURSIVE PushAll(_, _, _)
PushAll(cs, i, allEmotes) ==
    IF i > Len(cs) THEN allEmotes
    ELSE PushAll(cs, i + 1, allEmotes \o ArrayFrom(cs[i].emotes).items)

\* getTopEmotes(limit): allEmotes is an array of its own
getTopEmotes(store, limit) ==
    LET allEmotes == [items |-> PushAll(store.channelStats, 1, << >>), shared |-> FALSE]
    IN [result |-> slice(sort(allEmotes), limit), store |-> store]

\* getTopEmotesForChannel(channelName, limit)
getTopEmotesForChannel(store, channelName, limit) ==
    LET ci == ChannelIndex(store.channelStats, toLowerCase(channelName)) IN
    IF getChannelStats(store, channelName).result = Undefined
    THEN [result |-> << >>, store |-> store]
    ELSE LET sorted == sort(ArrayFrom(store.channelStats[ci].emotes)) IN
         [result |-> slice(sorted, limit),
          store |-> [store EXCEPT !.channelStats[ci].emotes = ValuesAfter(@, sorted)]]

\* exportStats(): every channel with its emotes sorted, and getTopEmotes(20)
exportStats(store, t) ==
    LET cs == store.channelStats
        sorted == [i \in 1..Len(cs) |-> sort(ArrayFrom(cs[i].emotes))]
        after == [store EXCEPT !.channelStats =
                      [i \in 1..Len(cs) |->
                          [cs[i] EXCEPT !.emotes = ValuesAfter(@, sorted[i])]]]
        top == getTopEmotes(after, 20)
    IN [result |-> [channels |-> [i \in 1..Len(cs) |->
                                     [channelName |-> cs[i].channelName,
                                      totalMessages |-> cs[i].totalMessages,
                                      totalEmotesUsed |-> cs[i].totalEmotesUsed,
                                      emotes |-> sorted[i].items]],
                    topEmotes |-> top.result,
                    lastUpdated |-> t],
        store |-> top.store]

NoQuery ==
    [n |-> 0, op |-> "none", channel |-> "none", limit |-> 0, result |-> << >>,
     seen |-> << >>]

\* a query call returns: the store is as the call left it
QueryReturns(op, channelName, limit, returned) ==
    /\ NoContinuationReady
    /\ query.n < MaxQueries
    /\ query' = [n |-> query.n + 1, op |-> op, channel |-> channelName, limit |-> limit,
                 result |-> returned.result, seen |-> channelStats]
    /\ channelStats' = returned.store.channelStats
    /\ isDirty' = returned.store.isDirty
    /\ UNCHANGED <<now, cacheVars, tasks, persistVars, calls, histVars, matchVars,
                   preload, lastOp, lifeVars, auditVars, rejected>>

GetChannelStats(channelName) ==
    QueryReturns("getChannelStats", channelName, 0, getChannelStats(Store, channelName))

GetAllStats == QueryReturns("getAllStats", "none", 0, getAllStats(Store))

GetTopEmotes(limit) == QueryReturns("getTopEmotes", "none", limit, getTopEmotes(Store, limit))

GetTopEmotesForChannel(channelName, limit) ==
    QueryReturns("getTopEmotesForChannel", channelName, limit,
                 getTopEmotesForChannel(Store, channelName, limit))

ExportStats == QueryReturns("exportStats", "none", 0, exportStats(Store, now))

\* getEmoteMetadata(channelName, emoteName) called from outside the service
GetEmoteMetadata(channelName, emoteName) ==
    QueryReturns("getEmoteMetadata", channelName, 0,
                 [result |-> getEmoteMetadata(channelName, emoteName), store |-> Store])

----------------------------------------------------------------------------
(* DashboardServer: GET /api/stats *)

\* getAllEmoteMetadata(channelName): the channel's metadata Map, or Undefined
\* for null
getAllEmoteMetadata(caches, channelName) ==
    LET key == toLowerCase(channelName) IN
    IF MapHas(caches.emoteMetadataCache, key)
    THEN Some(caches.emoteMetadataCache[key])
    ELSE Undefined

\* Array.from(map.values()); the Maps of this model keep no iteration order,
\* so the values come in an order fixed by their keys
RECURSIVE MapValues(_, _)
MapValues(m, keys) ==
    IF keys = {} THEN << >>
    ELSE LET k == CHOOSE x \in keys : TRUE IN
         << m[k] >> \o MapValues(m, keys \ {k})

\* the entry of one catalog emote: usedEmotesMap.get(metadata.name) gives the
\* count and lastUsed, 0 where the channel has no counter of that name
MergedEmote(channel, metadata) ==
    LET ei == EmoteIndex(channel.emotes, metadata.name) IN
    [emoteName |-> metadata.name,
     count |-> IF ei = 0 THEN 0 ELSE channel.emotes[ei].count,
     lastUsed |-> IF ei = 0 THEN 0 ELSE channel.emotes[ei].lastUsed,
     channel |-> channel.channelName,
     emoteId |-> metadata.id,
     imageUrl |-> metadata.imageUrl,
     animated |-> metadata.animated]

\* the callback of stats.channels.map: a channel without cached metadata is
\* returned as exportStats gave it, any other with the catalog's emotes
EnhancedChannel(caches, channel) ==
    LET allEmotesMetadata == getAllEmoteMetadata(caches, channel.channelName) IN
    IF allEmotesMetadata = Undefined THEN channel
    ELSE LET values == MapValues(TheValue(allEmotesMetadata),
                                 DOMAIN TheValue(allEmotesMetadata))
             allEmotes == [i \in 1..Len(values) |-> MergedEmote(channel, values[i])]
         IN [channel EXCEPT !.emotes = sort(ArrayFrom(allEmotes)).items]

\* handleStatsAPI(): the value whose JSON text is the body of the response
handleStatsAPI(store, caches, t) ==
    LET exported == exportStats(store, t)
        stats == exported.result
    IN [result |-> [stats EXCEPT !.channels =
                        [i \in 1..Len(stats.channels) |->
                            EnhancedChannel(caches, stats.channels[i])]],
        store |-> exported.store]

\* getAllEmoteMetadata(channelName) called from outside the service
GetAllEmoteMetadata(channelName) ==
    QueryReturns("getAllEmoteMetadata", channelName, 0,
                 [result |-> getAllEmoteMetadata(Caches, channelName), store |-> Store])

\* a GET /api/stats request is served
HandleStatsAPI ==
    QueryReturns("handleStatsAPI", "none", 0, handleStatsAPI(Store, Caches, now))

----------------------------------------------------------------------------
(* The autosave timer and the shutdown handler *)

Alive == exited = "none"

AllSavesIdle == \A s \in Saves : saves[s].pc = "idle"

\* the number of record* calls a store has seen
RECURSIVE Mutations(_, _)
Mutations(cs, i) ==
    IF i > Len(cs) THEN 0
    ELSE cs[i].totalMessages + cs[i].totalEmotesUsed + Mutations(cs, i + 1)

NoTick ==
    [seen |-> FALSE, dirty |-> FALSE, prevDirty |-> FALSE, quiet |-> FALSE,
     settled |-> FALSE, between |-> 0, issued |-> 0, done |-> 0, mutations |-> 0,
     idle |-> TRUE]

\* what a tick finds, and how it relates to the tick before it:
\*   dirty      the flag the tick reads
\*   prevDirty  the flag the previous tick read
\*   quiet      no record* call since the previous tick
\*   settled    the previous tick began with no save in flight, and the save it
\*              called has resolved with its write done
\*   between    fs.writeFile calls issued since the previous tick
TickFinds ==
    [seen |-> TRUE,
     dirty |-> isDirty,
     prevDirty |-> lastTick.seen /\ lastTick.dirty,
     quiet |-> lastTick.seen /\ Mutations(channelStats, 1) = lastTick.mutations,
     settled |-> /\ lastTick.seen /\ lastTick.idle /\ AllSavesIdle
                 /\ writesDone = lastTick.done + 1,
     between |-> writesIssued - lastTick.issued,
     issued |-> writesIssued,
     done |-> writesDone,
     mutations |-> Mutations(channelStats, 1),
     idle |-> AllSavesIdle]

\* saveStats() called by the timer callback or by stopAutoSave, up to await fs.mkdir
BeginSave(s, caller) ==
    /\ FreeSave(s)
    /\ saves' = [saves EXCEPT ![s].pc = "mkdir"]
    /\ saveCaller' = [saveCaller EXCEPT ![s] = caller]

\* the timer callback saving on every tick
TickSavesAlways(store) == TRUE

\* the timer callback: if (this.isDirty)
TickSaves(store) == store.isDirty

\* the setInterval callback of startAutoSave fires, as often as the timer
\* does; ticks counts the first MaxAutoTicks of them
AutoSaveFires ==
    /\ NoContinuationReady
    /\ Alive
    /\ timers > 0
    /\ ticks' = IF ticks < MaxAutoTicks THEN ticks + 1 ELSE ticks
    /\ lastTick' = TickFinds
    /\ IF TickSaves(Store)
       THEN \E s \in Saves : BeginSave(s, "tick")
       ELSE UNCHANGED <<saves, saveCaller>>
    /\ UNCHANGED <<now, cacheVars, tasks, storeVars, statsFile, loads, calls, histVars,
                   matchVars, query, lastOp, preload, saveInterval, timers, main,
                   exited, signals, writesIssued, writesDone, lastLoad, savedStore,
                   applied, rejected>>

\* one of the first MaxAutoTicks firings of the timer
AutoSaveTick == ticks < MaxAutoTicks /\ AutoSaveFires

\* stopAutoSave leaving the timer set
clearIntervalSkipped(interval) == interval

\* stopAutoSave: clearInterval(this.saveInterval); this.saveInterval = null
clearInterval(interval) == FALSE

\* the timers running after stopAutoSave: clearInterval stops the one that
\* this.saveInterval refers to
TimersAfterStop(interval, n) ==
    IF interval /\ ~clearInterval(interval) THEN n - 1 ELSE n

\* SIGINT / SIGTERM: shutdown() calls stopAutoSave(), which clears the timer and
\* awaits a final saveStats() if the store is dirty; otherwise process.exit(0)
Shutdown ==
    /\ NoContinuationReady
    /\ Alive
    /\ signals < MaxSignals
    /\ signals' = signals + 1
    /\ saveInterval' = clearInterval(saveInterval)
    /\ timers' = TimersAfterStop(saveInterval, timers)
    /\ IF isDirty
       THEN /\ \E s \in Saves : BeginSave(s, "stop")
            /\ UNCHANGED exited
       ELSE /\ exited' = "clean"
            /\ UNCHANGED <<saves, saveCaller>>
    /\ UNCHANGED <<now, cacheVars, tasks, storeVars, statsFile, loads, calls, histVars,
                   matchVars, query, lastOp, preload, main, ticks, auditVars, rejected>>

\* startAutoSave() called on the service
StartAutoSave ==
    /\ NoContinuationReady
    /\ calls < MaxOps
    /\ calls' = calls + 1
    /\ saveInterval' = startAutoSave(saveInterval)
    /\ timers' = TimersAfterStart(saveInterval, timers)
    /\ lastOp' = StoreCall("startAutoSave", "", << >>)
    /\ UNCHANGED <<now, cacheVars, tasks, storeVars, persistVars, histVars, matchVars,
                   query, preload, saveCaller, main, exited, signals, ticks, auditVars,
                   rejected>>

\* stopAutoSave() called on the service: the timer is cleared, and a final
\* saveStats() is awaited if the store is dirty
StopAutoSave ==
    /\ NoContinuationReady
    /\ calls < MaxOps
    /\ calls' = calls + 1
    /\ saveInterval' = clearInterval(saveInterval)
    /\ timers' = TimersAfterStop(saveInterval, timers)
    /\ lastOp' = StoreCall("stopAutoSave", "", << >>)
    /\ IF isDirty
       THEN \E s \in Saves : BeginSave(s, "caller")
       ELSE UNCHANGED <<saves, saveCaller>>
    /\ UNCHANGED <<now, cacheVars, tasks, storeVars, statsFile, loads, histVars,
                   matchVars, query, preload, main, exited, signals, ticks, auditVars,
                   rejected>>

----------------------------------------------------------------------------
(* findEmotesInMessage applied to arbitrary short texts *)

Texts == UNION {[1..n -> Chars] : n \in 0..MaxLen}

FindEmotes ==
    /\ matchResult = << >>
    /\ matchResult' = << findEmotesInMessage(matchText, matchEmotes) >>
    /\ UNCHANGED <<now, cacheVars, tasks, storeVars, persistVars, calls, histVars,
                   matchText, matchEmotes, preload, query, lastOp, lifeVars, auditVars,
                   rejected>>

----------------------------------------------------------------------------
(* Specifications *)

InitSystem ==
    /\ now = StartMs
    /\ calls = 0
    /\ emoteCache = EmptyMap
    /\ emoteMetadataCache = EmptyMap
    /\ cacheTimestamps = EmptyMap
    /\ tasks = [t \in Tasks |-> IdleTask]
    /\ channelStats = << >>
    /\ isDirty = FALSE
    /\ saves = [s \in Saves |-> IdleSave]
    /\ fetchCount = [k \in ChannelKeys |-> 0]
    /\ lastFetchAt = [k \in ChannelKeys |-> 0]
    /\ lastFailed = [k \in ChannelKeys |-> FALSE]
    /\ responses = [k \in ChannelKeys |-> << >>]
    /\ saveCaller = [s \in Saves |-> "none"]
    /\ timers = 0
    /\ exited = "none"
    /\ signals = 0
    /\ ticks = 0
    /\ writesIssued = 0
    /\ writesDone = 0
    /\ lastTick = NoTick
    /\ lastLoad = "none"
    /\ applied = [k \in ChannelKeys |-> 0]
    /\ rejected = {}
    /\ preload = NoPreload
    /\ query = NoQuery
    /\ lastOp = NoOp

\* no main(): the services are driven directly, and no timer is set
InitServices ==
    /\ InitSystem
    /\ loads = 0
    /\ main = "none"
    /\ saveInterval = FALSE

\* the store a stats.json found at startup was written from
StoreOf(file) ==
    IF file = WrittenFile(PreviousDocument) THEN Some(PreviousStore.channelStats)
    ELSE Undefined

Init ==
    /\ InitServices
    /\ statsFile = AbsentFile
    /\ savedStore = Undefined
    /\ matchText = << >>
    /\ matchEmotes = {}
    /\ matchResult = << >>

\* the catalog cache under concurrent fetchChannelEmotes calls, and the clock
NextCache ==
    \/ \E t \in Tasks, c \in CacheChannels : FetchChannelEmotes(t, c)
    \/ \E t \in Tasks, found \in BOOLEAN : LookupDone(t, found)
    \/ \E t \in Tasks, o \in {"ok", "notfound", "status", "network"} : FetchDone(t, o)
    \/ \E t \in Tasks, r \in Responses : JsonDone(t, r)
    \/ \E t \in Tasks : JsonFailed(t)
    \/ \E t \in Tasks : Resume(t)
    \/ Tick

SpecCache == Init /\ [][NextCache]_vars

\* the message path: handleMessage calls, the fetches they start, and the clock
Next ==
    \/ \E t \in Tasks, c \in MessageChannels, x \in MessageTexts : HandleMessage(t, c, x)
    \/ \E t \in Tasks, found \in BOOLEAN : LookupDone(t, found)
    \/ \E t \in Tasks, o \in {"ok", "notfound", "status", "network"} : FetchDone(t, o)
    \/ \E t \in Tasks, r \in Responses : JsonDone(t, r)
    \/ \E t \in Tasks : JsonFailed(t)
    \/ \E t \in Tasks : Resume(t)
    \/ Tick

Spec == Init /\ [][Next]_vars

\* the store and its persistence, driven through its public operations
NextStore ==
    \/ \E c \in StoreChannels : RecordMessage(c)
    \/ \E c \in StoreChannels, e \in EmoteNames, m \in MetadataArgs : RecordEmoteUsage(c, e, m)
    \/ ClearStats
    \/ \E s \in Saves : SaveStats(s)
    \/ \E s \in Saves, ok \in BOOLEAN : MkdirDone(s, ok)
    \/ \E s \in Saves : WriteDone(s)
    \/ \E s \in Saves, truncated \in BOOLEAN : WriteFailed(s, truncated)
    \/ LoadStats
    \/ LoadDone
    \/ Tick

\* the process starts with no stats.json, or with the one a previous run wrote
InitStore ==
    /\ InitServices
    /\ statsFile \in {AbsentFile, WrittenFile(PreviousDocument)}
    /\ savedStore = StoreOf(statsFile)
    /\ matchText = << >>
    /\ matchEmotes = {}
    /\ matchResult = << >>

SpecStore == InitStore /\ [][NextStore]_vars

InitMatch ==
    /\ InitServices
    /\ statsFile = AbsentFile
    /\ savedStore = Undefined
    /\ matchText \in Texts
    /\ matchEmotes \in SUBSET EmoteNames
    /\ matchResult = << >>

NextMatch == FindEmotes

SpecMatch == InitMatch /\ [][NextMatch]_vars

\* the channel and the emote of the record* calls made while the process runs
LifeChannels == {"Foo"}
LifeEmotes == {EmoteA}

\* the process from main()'s await of loadStats to process.exit: record* calls
\* (made by handleMessage), the autosave timer, the saves and the shutdown signal
InitLife ==
    /\ InitSystem
    /\ loads = 1
    /\ main = "load"
    /\ saveInterval = FALSE
    /\ statsFile \in {AbsentFile, WrittenFile(PreviousDocument)}
    /\ savedStore = StoreOf(statsFile)
    /\ matchText = << >>
    /\ matchEmotes = {}
    /\ matchResult = << >>

NextLife ==
    \/ Alive /\ LoadDone
    \/ \E c \in LifeChannels : Alive /\ RecordMessage(c)
    \/ \E c \in LifeChannels, e \in LifeEmotes : Alive /\ RecordEmoteUsage(c, e, Undefined)
    \/ AutoSaveTick
    \/ Shutdown
    \/ \E s \in Saves, ok \in BOOLEAN : Alive /\ MkdirDone(s, ok)
    \/ \E s \in Saves : Alive /\ WriteDone(s)
    \/ \E s \in Saves, truncated \in BOOLEAN : Alive /\ WriteFailed(s, truncated)

SpecLife == InitLife /\ [][NextLife]_vars

\* the process while autosave runs, with no shutdown signal: the timer fires
\* for ever, record* calls are made once main() has started the timer, and a
\* write can fail only among the first MaxFailing issued
NextPersist ==
    \/ LoadDone
    \/ \E c \in LifeChannels : saveInterval /\ RecordMessage(c)
    \/ \E c \in LifeChannels, e \in LifeEmotes :
           saveInterval /\ RecordEmoteUsage(c, e, Undefined)
    \/ AutoSaveFires
    \/ \E s \in Saves, ok \in BOOLEAN : MkdirDone(s, ok)
    \/ \E s \in Saves : WriteDone(s)
    \/ \E s \in Saves, truncated \in BOOLEAN :
           writesIssued <= MaxFailing /\ WriteFailed(s, truncated)

\* setInterval keeps firing its callback and the event loop runs every
\* completion that is due (weak fairness); of the mkdir and writeFile calls
\* that keep being made, some succeed (strong fairness)
FairPersist ==
    /\ WF_vars(LoadDone)
    /\ WF_vars(AutoSaveFires)
    /\ SF_vars(\E s \in Saves : MkdirDone(s, TRUE))
    /\ SF_vars(\E s \in Saves : WriteDone(s))

SpecPersist == InitLife /\ [][NextPersist]_vars /\ FairPersist

\* the operations that take a channel name, called with two spellings of one
\* name; every lookup and fetch succeeds
KeyNames == {"Foo", "foo"}

NextKeys ==
    \/ \E c \in KeyNames : RecordMessage(c)
    \/ \E c \in KeyNames : RecordEmoteUsage(c, EmoteA, Undefined)
    \/ \E c \in KeyNames : GetChannelStats(c)
    \/ \E c \in KeyNames : GetTopEmotesForChannel(c, 1)
    \/ \E c \in KeyNames : GetEmoteMetadata(c, EmoteA)
    \/ \E c \in KeyNames : GetAllEmoteMetadata(c)
    \/ \E t \in Tasks, c \in KeyNames : FetchChannelEmotes(t, c)
    \/ \E t \in Tasks : LookupDone(t, TRUE)
    \/ \E t \in Tasks : FetchDone(t, "ok")
    \/ \E t \in Tasks, r \in Responses : JsonDone(t, r)
    \/ \E t \in Tasks : Resume(t)

SpecKeys == Init /\ [][NextKeys]_vars

\* the timer of the service, driven through startAutoSave and stopAutoSave in
\* any order, with record* calls, ticks and the saves they start
NextTimer ==
    \/ StartAutoSave
    \/ StopAutoSave
    \/ \E c \in LifeChannels : RecordMessage(c)
    \/ AutoSaveTick
    \/ \E s \in Saves, ok \in BOOLEAN : MkdirDone(s, ok)
    \/ \E s \in Saves : WriteDone(s)
    \/ \E s \in Saves, truncated \in BOOLEAN : WriteFailed(s, truncated)

SpecTimer == Init /\ [][NextTimer]_vars

\* the message path with the dashboard: /api/stats requests between the steps
\* of handleMessage calls, catalogs that expire and are fetched again
NextDashboard ==
    \/ Next
    \/ HandleStatsAPI

SpecDashboard == Init /\ [][NextDashboard]_vars

\* every core function called, with every outcome of its awaits
InitFailures ==
    /\ InitServices
    /\ statsFile \in {AbsentFile, CorruptFile, MalformedFile, WrittenFile(PreviousDocument)}
    /\ savedStore = StoreOf(statsFile)
    /\ matchText = << >>
    /\ matchEmotes = {}
    /\ matchResult = << >>

NextFailures ==
    \/ \E t \in Tasks, c \in CacheChannels : FetchChannelEmotes(t, c)
    \/ \E t \in Tasks, c \in MessageChannels : HandleMessage(t, c, TextRepeated)
    \/ \E t \in Tasks, found \in BOOLEAN : LookupDone(t, found)
    \/ \E t \in Tasks, o \in {"ok", "notfound", "status", "network"} : FetchDone(t, o)
    \/ \E t \in Tasks, r \in Responses : JsonDone(t, r)
    \/ \E t \in Tasks : JsonFailed(t)
    \/ \E t \in Tasks : Resume(t)
    \/ \E s \in Saves : SaveStats(s)
    \/ \E s \in Saves, ok \in BOOLEAN : MkdirDone(s, ok)
    \/ \E s \in Saves : WriteDone(s)
    \/ \E s \in Saves, truncated \in BOOLEAN : WriteFailed(s, truncated)
    \/ LoadStats
    \/ LoadDone

SpecFailures == InitFailures /\ [][NextFailures]_vars

\* the channel lists preloadChannelEmotes is called with
PreloadLists == { << >>, <<"Foo">>, <<"Foo", "bar">>, <<"foo", "Foo">> }

\* preloadChannelEmotes calls, the fetches they fan out, and the clock
NextPreload ==
    \/ \E l \in PreloadLists : PreloadChannelEmotes(l)
    \/ \E t \in Tasks, found \in BOOLEAN : LookupDone(t, found)
    \/ \E t \in Tasks, o \in {"ok", "notfound", "status", "network"} : FetchDone(t, o)
    \/ \E t \in Tasks, r \in Responses : JsonDone(t, r)
    \/ \E t \in Tasks : JsonFailed(t)
    \/ \E t \in Tasks : Resume(t)
    \/ Tick

SpecPreload == Init /\ [][NextPreload]_vars

\* the store after startup (empty, or loaded from the previous run's file),
\* changed by record* calls and read by the query operations
Limits == 0..MaxLimit

InitQuery ==
    /\ InitServices
    /\ statsFile \in {AbsentFile, WrittenFile(PreviousDocument)}
    /\ savedStore = StoreOf(statsFile)
    /\ matchText = << >>
    /\ matchEmotes = {}
    /\ matchResult = << >>

NextQuery ==
    \/ LoadStats
    \/ LoadDone
    \/ \E c \in StoreChannels : RecordMessage(c)
    \/ \E c \in StoreChannels, e \in EmoteNames : RecordEmoteUsage(c, e, Undefined)
    \/ \E c \in StoreChannels : GetChannelStats(c)
    \/ GetAllStats
    \/ \E limit \in Limits : GetTopEmotes(limit)
    \/ \E c \in StoreChannels, limit \in Limits : GetTopEmotesForChannel(c, limit)
    \/ ExportStats

SpecQuery == InitQuery /\ [][NextQuery]_vars

----------------------------------------------------------------------------
(* Properties of the catalog cache (SpecCache) *)

\* the step starts a call in slot t
Starts(t) == tasks[t].pc = "idle" /\ tasks'[t].pc # "idle"

\* the cache holds a catalog of the channel key that is younger than CACHE_DURATION
Fresh(key) ==
    /\ key \in DOMAIN cacheTimestamps
    /\ now - cacheTimestamps[key] < CACHE_DURATION

\* C1: TTL gate.  A call that starts while the channel's catalog, stored by a
\* successful fetch at time t, satisfies now - t < 5 minutes returns the cached
\* name set at once: it issues no user-id lookup and no registry fetch.
C1_TTLGate ==
    [][\A t \in Tasks :
         LET key == toLowerCase(tasks'[t].channel) IN
         (Starts(t) /\ Fresh(key)) =>
             /\ tasks'[t].pc = "resume"
             /\ tasks'[t].emotes = emoteCache[key]
             /\ fetchCount' = fetchCount
             /\ cacheVars' = cacheVars]_vars

\* two calls, one registry fetch: the second was answered from a catalog stored earlier
C1_Witness ==
    \E t \in Tasks :
        /\ tasks[t].pc = "resume"
        /\ tasks[t].outcome = "hit"
        /\ tasks[t].emotes = {EmoteA, EmoteLowerA}
        /\ calls = 2
        /\ fetchCount["foo"] = 1
        /\ now > cacheTimestamps["foo"]

\* C2: negative-result caching.  When the registry answers 404, the empty
\* catalog is stored with a fresh timestamp (so that a second call within
\* 5 minutes is answered from the cache).
C2_NotFoundCached ==
    [][\A t \in Tasks :
         LET key == toLowerCase(tasks[t].channel) IN
         (tasks[t].pc = "fetch" /\ tasks'[t].outcome = "notfound") =>
             /\ key \in DOMAIN emoteCache'
             /\ emoteCache'[key] = {}
             /\ key \in DOMAIN cacheTimestamps'
             /\ cacheTimestamps'[key] = now]_vars

\* C3: a transient failure (non-404 status, network error, JSON error) returns
\* the empty set and leaves the name sets, the metadata maps and the
\* timestamps of the cache as they were.
C3_FailureLeavesCache ==
    [][\A t \in Tasks :
         (tasks[t].pc \in {"fetch", "json"} /\ tasks'[t].outcome = "failed") =>
             /\ tasks'[t].pc = "resume"
             /\ tasks'[t].emotes = {}
             /\ emoteCache' = emoteCache
             /\ emoteMetadataCache' = emoteMetadataCache
             /\ cacheTimestamps' = cacheTimestamps]_vars

\* a call has failed while an older (expired) catalog of its channel is still stored
C3_Witness ==
    \E t \in Tasks :
        /\ tasks[t].pc = "resume"
        /\ tasks[t].outcome = "failed"
        /\ "foo" \in DOMAIN emoteCache
        /\ emoteCache["foo"] = {EmoteA}
        /\ now - cacheTimestamps["foo"] >= CACHE_DURATION

\* C4: transient-failure non-caching.  After a call for a channel has ended in
\* a transient failure, with no catalog stored for the channel since that call
\* began, the next call for the channel is not answered from the cache: it
\* goes on to the user-id lookup and the registry fetch.
C4_RetryAfterFailure ==
    [][\A t \in Tasks :
         LET key == toLowerCase(tasks'[t].channel) IN
         (Starts(t) /\ lastFailed[key]) =>
             /\ tasks'[t].pc = "lookup"
             /\ tasks'[t].outcome # "hit"]_vars

\* the retry after a failure has issued the second registry fetch of the channel
C4_Witness ==
    \E t \in Tasks :
        /\ tasks[t].pc = "fetch"
        /\ lastFailed["foo"]
        /\ fetchCount["foo"] = 2
        /\ calls = 2
        /\ \A u \in Tasks \ {t} : tasks[u].pc = "idle"

\* the step issues a registry fetch for the channel key
IssuesFetch(key) == fetchCount'[key] = fetchCount[key] + 1

\* C5 as claimed: at most one registry fetch per channel in any 5-minute
\* window, so a fetch is issued only if the previous one of the channel is at
\* least CACHE_DURATION old.
C5_OneFetchPerWindow ==
    [][\A key \in ChannelKeys :
         IssuesFetch(key) =>
             \/ fetchCount[key] = 0
             \/ now - lastFetchAt[key] >= CACHE_DURATION]_vars

\* C5 as amended: a registry fetch is issued only by a call that missed the
\* cache; unless another call has stored a catalog of the channel since, the
\* channel has no catalog, or one at least 5 minutes old, when the fetch is issued.
C5_FetchOnlyWhenStale ==
    [][\A t \in Tasks :
         LET key == toLowerCase(tasks[t].channel) IN
         (tasks[t].pc = "lookup" /\ tasks'[t].pc = "fetch" /\ ~tasks[t].populated) =>
             \/ key \notin DOMAIN cacheTimestamps
             \/ now - cacheTimestamps[key] >= CACHE_DURATION]_vars

\* a second fetch of the channel is in flight, issued once the stored catalog expired
C5_Witness ==
    \E t \in Tasks :
        /\ tasks[t].pc = "fetch"
        /\ ~tasks[t].populated
        /\ fetchCount["foo"] = 2
        /\ "foo" \in DOMAIN cacheTimestamps
        /\ lastFetchAt["foo"] - cacheTimestamps["foo"] >= CACHE_DURATION

\* the names of a registry response, and the catalog it stands for
NamesOf(response) == { response[i].name : i \in 1..Len(response) }

HoldsCatalog(names, metadata, response) ==
    /\ names = NamesOf(response)
    /\ DOMAIN metadata = NamesOf(response)
    /\ \A i \in 1..Len(response) :
           metadata[response[i].name] =
               [id |-> response[i].id, name |-> response[i].name,
                imageUrl |-> <<"https://cdn.7tv.app/emote/", response[i].id, "/1x.webp">>,
                animated |-> response[i].animated]

LastOf(seq) == seq[Len(seq)]

\* the step in which the call in slot t caches the response it received
Refreshes(t) == tasks[t].pc = "json" /\ tasks'[t].outcome = "fetched"

\* C25: wholesale replacement.  After a successful refresh of a channel the
\* cached name set and metadata map hold the emotes of that response and
\* nothing else, entries of the previous catalog that the response lacks
\* being gone; and in every state another task can run in, the names and the
\* metadata of a channel are those of one single response.
C25_WholesaleReplacement ==
    [][/\ \A t \in Tasks :
            Refreshes(t) =>
                LET key == toLowerCase(tasks[t].channel) IN
                /\ Len(responses'[key]) = Len(responses[key]) + 1
                /\ tasks'[t].emotes = NamesOf(LastOf(responses'[key]))
                /\ key \in DOMAIN emoteCache' /\ key \in DOMAIN emoteMetadataCache'
                /\ HoldsCatalog(emoteCache'[key], emoteMetadataCache'[key],
                                LastOf(responses'[key]))
       /\ \A key \in DOMAIN emoteCache' :
              /\ key \in DOMAIN emoteMetadataCache'
              /\ responses'[key] # << >>
              /\ HoldsCatalog(emoteCache'[key], emoteMetadataCache'[key],
                              LastOf(responses'[key]))]_vars

\* the catalog {A (id2), a (id3)} of the channel was replaced by the response
\* [A (id1)]: a is gone and A carries the new id
C25_Witness ==
    /\ responses["foo"] = << << SevenTVEmote(EmoteA, "id2", TRUE),
                                SevenTVEmote(EmoteLowerA, "id3", FALSE) >>,
                             << SevenTVEmote(EmoteA, "id1", FALSE) >> >>
    /\ emoteCache["foo"] = {EmoteA}
    /\ DOMAIN emoteMetadataCache["foo"] = {EmoteA}
    /\ emoteMetadataCache["foo"][EmoteA].id = "id1"
    /\ \A t \in Tasks : tasks[t].pc = "idle"

\* the step in which the fetch of the call in slot t ends without a catalog
EndsEmpty(t) ==
    /\ tasks[t].pc \in {"lookup", "fetch", "json"}
    /\ tasks'[t].outcome \in {"nouser", "notfound", "failed"}

\* C26: concurrent refreshes of one channel converge.  When a fetch caches
\* its response after another fetch of the same channel, in flight together
\* with it, has cached its own, both responses have been fetched (nothing was
\* deduplicated) and the cache is left with the names and the metadata of the
\* response cached last, whole, under a timestamp of that moment.
C26_ConcurrentRefreshesConverge ==
    [][\A t \in Tasks :
         (Refreshes(t) /\ tasks[t].populated) =>
             LET key == toLowerCase(tasks[t].channel) IN
             /\ fetchCount[key] >= 2
             /\ Len(responses'[key]) >= 2
             /\ HoldsCatalog(emoteCache'[key], emoteMetadataCache'[key],
                             LastOf(responses'[key]))
             /\ cacheTimestamps'[key] = now
             /\ now - cacheTimestamps'[key] < CACHE_DURATION]_vars

\* two fetches of the channel were in flight together; the first cached
\* [A (id1)], then time passed and the second cached [A (id2), a (id3)]
C26_Witness ==
    /\ calls = 2
    /\ fetchCount["foo"] = 2
    /\ lastFetchAt["foo"] = StartMs
    /\ responses["foo"] = << << SevenTVEmote(EmoteA, "id1", FALSE) >>,
                             << SevenTVEmote(EmoteA, "id2", TRUE),
                                SevenTVEmote(EmoteLowerA, "id3", FALSE) >> >>
    /\ emoteCache["foo"] = {EmoteA, EmoteLowerA}
    /\ emoteMetadataCache["foo"][EmoteA].id = "id2"
    /\ cacheTimestamps["foo"] = now
    /\ now = StartMs + TickMs
    /\ \A t \in Tasks : tasks[t].pc = "idle"

\* C27: the cache timestamp of a channel never decreases.  A timestamp once
\* stored stays stored; every successful refresh, one whose response arrives
\* after that of a later call included, stores the time of the refresh, which
\* is not before the timestamp it replaces; a refresh that ends without a
\* catalog leaves the timestamps alone.  (Date.now() does not go backwards.)
C27_TimestampMonotonic ==
    [][/\ \A key \in DOMAIN cacheTimestamps :
              /\ key \in DOMAIN cacheTimestamps'
              /\ cacheTimestamps'[key] >= cacheTimestamps[key]
       /\ \A t \in Tasks :
              Refreshes(t) => cacheTimestamps'[toLowerCase(tasks[t].channel)] = now
       /\ \A t \in Tasks : EndsEmpty(t) => cacheTimestamps' = cacheTimestamps]_vars

\* the first call of the channel, made two clock advances ago, has cached its
\* response after the second call, made later, had cached its own
C27_Witness ==
    \E t \in Tasks :
        /\ tasks[t].pc = "resume"
        /\ tasks[t].outcome = "fetched"
        /\ tasks[t].seq = 1
        /\ tasks[t].started = StartMs
        /\ calls = 2
        /\ Len(responses["foo"]) = 2
        /\ now = StartMs + 2 * TickMs
        /\ cacheTimestamps["foo"] = now
        /\ \A u \in Tasks \ {t} : tasks[u].pc = "idle"

\* C36: cache consistency.  In every state between scheduling turns, each
\* channel key has its name set, its metadata map and its timestamp all
\* absent or all present; when present, the name set is the key set of the
\* metadata map and every metadata entry carries its key as its name.
C36_CacheConsistent ==
    \A key \in ChannelKeys :
        /\ MapHas(emoteCache, key) <=> MapHas(emoteMetadataCache, key)
        /\ MapHas(emoteCache, key) <=> MapHas(cacheTimestamps, key)
        /\ MapHas(emoteCache, key) =>
               /\ emoteCache[key] = DOMAIN emoteMetadataCache[key]
               /\ \A name \in emoteCache[key] : emoteMetadataCache[key][name].name = name

\* the channel's catalog has been cached twice, the second time with fewer
\* emotes than the first, while another call is suspended between its awaits
C36_Witness ==
    /\ Len(responses["foo"]) = 2
    /\ Len(responses["foo"][1]) = 2
    /\ Len(responses["foo"][2]) = 1
    /\ emoteCache["foo"] = {EmoteA}
    /\ \E t \in Tasks : tasks[t].pc \in {"lookup", "fetch", "json"}

----------------------------------------------------------------------------
(* Properties of preloadChannelEmotes (SpecPreload) *)

\* the step in which the promise of a preloadChannelEmotes call resolves
PreloadResolves == preload.state = "pending" /\ preload'.state = "resolved"

\* the catalogs the fetches of a preload returned for a channel key
Fetched(p, key) ==
    { p.result[u] : u \in { v \in 1..Len(p.channels) :
                               /\ toLowerCase(p.channels[v]) = key
                               /\ p.outcome[v] = "fetched" } }

\* C22: preload isolation.  preloadChannelEmotes resolves only when the fetch
\* of every channel it was given has settled; it never rejects; a fetch that
\* fails leaves the cache and the other fetches as they are, so every channel
\* whose fetch succeeded has its catalog in the cache when the preload resolves.
C22_PreloadIsolation ==
    [][/\ PreloadResolves =>
              /\ \A t \in Tasks : tasks'[t].pc = "idle"
              /\ \A t \in 1..Len(preload.channels) :
                     LET key == toLowerCase(preload.channels[t]) IN
                     /\ preload'.outcome[t] # "none"
                     /\ preload'.outcome[t] = "fetched" =>
                            /\ key \in DOMAIN emoteCache'
                            /\ key \in DOMAIN emoteMetadataCache'
                            /\ key \in DOMAIN cacheTimestamps'
                            /\ emoteCache'[key] \in Fetched(preload', key)
       /\ "preloadChannelEmotes" \notin rejected'
       /\ \A t \in Tasks :
              EndsEmpty(t) => /\ cacheVars' = cacheVars
                              /\ \A u \in Tasks \ {t} : tasks'[u] = tasks[u]]_vars

\* a preload of two channels has resolved: the fetch of the first failed, the
\* catalog of the second is cached
C22_Witness ==
    /\ preload.state = "resolved"
    /\ preload.channels = <<"Foo", "bar">>
    /\ preload.outcome[1] = "failed"
    /\ preload.outcome[2] = "fetched"
    /\ "bar" \in DOMAIN emoteCache
    /\ emoteCache["bar"] = {EmoteA, EmoteLowerA}
    /\ "foo" \notin DOMAIN emoteCache
    /\ rejected = {}

----------------------------------------------------------------------------
(* Properties of matching and of the message path (SpecMatch, Spec) *)

\* the whitespace-delimited tokens of a text: its maximal runs of non-whitespace
IsToken(text, i, j) ==
    /\ i <= j
    /\ \A k \in i..j : text[k] \notin Whitespace
    /\ i = 1 \/ text[i - 1] \in Whitespace
    /\ j = Len(text) \/ text[j + 1] \in Whitespace

Tokens(text) ==
    {SubSeq(text, i, j) : <<i, j>> \in {p \in (1..Len(text)) \X (1..Len(text)) :
                                           IsToken(text, p[1], p[2])}}

\* where a token first occurs in the text
FirstStart(text, token) ==
    CHOOSE i \in 1..Len(text) :
        /\ \E j \in i..Len(text) : IsToken(text, i, j) /\ SubSeq(text, i, j) = token
        /\ \A h \in 1..(i - 1) :
               ~\E j \in h..Len(text) : IsToken(text, h, j) /\ SubSeq(text, h, j) = token

\* the counter values of the usage store, 0 where there is no bucket or counter
TotalEmotesOf(cs, key) ==
    IF ChannelIndex(cs, key) = 0 THEN 0 ELSE cs[ChannelIndex(cs, key)].totalEmotesUsed

CountOf(cs, key, emoteName) ==
    IF ChannelIndex(cs, key) = 0 THEN 0
    ELSE LET emotes == cs[ChannelIndex(cs, key)].emotes IN
         IF EmoteIndex(emotes, emoteName) = 0 THEN 0
         ELSE emotes[EmoteIndex(emotes, emoteName)].count

\* the counters of the bucket of key, none where there is no bucket
EmotesOf(cs, key) ==
    IF ChannelIndex(cs, key) = 0 THEN << >> ELSE cs[ChannelIndex(cs, key)].emotes

\* the step in which handleMessage, in slot t, matches and records
Records(t) ==
    tasks[t].pc = "resume" /\ tasks[t].kind = "message" /\ tasks'[t].pc = "idle"

\* C6: dedupe within a message.  Handling one message makes the counter of
\* each distinct catalog emote among its tokens grow by exactly 1, leaves the
\* other counters alone, and makes totalEmotesUsed grow by the number of
\* distinct matches, however often an emote is repeated in the text.
C6_DedupeWithinMessage ==
    [][\A t \in Tasks :
         Records(t) =>
             LET key == toLowerCase(tasks[t].channel)
                 matched == Tokens(tasks[t].text) \cap tasks[t].emotes
             IN /\ TotalEmotesOf(channelStats', key) =
                       TotalEmotesOf(channelStats, key) + Cardinality(matched)
                /\ \A e \in EmoteNames :
                       CountOf(channelStats', key, e) =
                           CountOf(channelStats, key, e) + (IF e \in matched THEN 1 ELSE 0)]_vars

\* one message "A A A" has been handled with the catalog {A (id2), a}: A counts 1
C6_Witness ==
    /\ calls = 1
    /\ \A t \in Tasks : tasks[t].pc = "idle"
    /\ Len(channelStats) = 1
    /\ channelStats[1].totalMessages = 1
    /\ channelStats[1].totalEmotesUsed = 1
    /\ Len(channelStats[1].emotes) = 1
    /\ channelStats[1].emotes[1].emoteName = EmoteA
    /\ channelStats[1].emotes[1].count = 1
    /\ channelStats[1].emotes[1].emoteId = {"id2"}

\* C7: findEmotesInMessage(text, emotes) returns exactly the
\* whitespace-delimited tokens of text that are equal to a member of emotes,
\* each once, in the order of their first occurrence in text.
C7_FindEmotes ==
    matchResult # << >> =>
        LET found == matchResult[1] IN
        /\ {found[i] : i \in 1..Len(found)} = Tokens(matchText) \cap matchEmotes
        /\ \A i, j \in 1..Len(found) :
               i < j => /\ found[i] # found[j]
                        /\ FirstStart(matchText, found[i]) < FirstStart(matchText, found[j])

\* "a A a" with both emotes in the set yields a, then A
C7_Witness ==
    /\ matchText = <<"a", " ", "A", " ", "a">>
    /\ matchEmotes = {EmoteA, EmoteLowerA}
    /\ matchResult = << <<EmoteLowerA, EmoteA>> >>

\* the stored metadata of a counter, as the optional argument of recordEmoteUsage
StoredMetadata(cs, key, emoteName) ==
    LET emotes == cs[ChannelIndex(cs, key)].emotes
        e == emotes[EmoteIndex(emotes, emoteName)]
    IN IF e.emoteId = Undefined THEN Undefined
       ELSE Some(Metadata(TheValue(e.emoteId), TheValue(e.imageUrl), TheValue(e.animated)))

\* C8: snapshot metadata is last-write-wins.  After handleMessage has
\* recorded an emote with the metadata it read from the catalog, the counter's
\* stored emoteId, imageUrl and animated are the ones just passed.
C8_LastWriteWins ==
    [][\A t \in Tasks :
         Records(t) =>
             LET key == toLowerCase(tasks[t].channel)
                 matched == Tokens(tasks[t].text) \cap tasks[t].emotes
             IN \A e \in matched :
                    (key \in DOMAIN emoteMetadataCache /\ e \in DOMAIN emoteMetadataCache[key]) =>
                        StoredMetadata(channelStats', key, e) =
                            Some(Metadata(emoteMetadataCache[key][e].id,
                                          emoteMetadataCache[key][e].imageUrl,
                                          emoteMetadataCache[key][e].animated))]_vars

\* C20: per-channel ordering.  If message m1 of a channel is handed to
\* handleMessage before message m2 of the same channel, the recordEmoteUsage
\* updates of m1 are applied before any of m2: when a message applies its
\* updates, no message of the channel that arrived after it has applied any.
C20_PerChannelOrder ==
    [][\A t \in Tasks :
         (Records(t) /\ findEmotesInMessage(tasks[t].text, tasks[t].emotes) # << >>) =>
             applied[toLowerCase(tasks[t].channel)] < tasks[t].seq]_vars

TotalMessagesOf(cs, key) ==
    IF ChannelIndex(cs, key) = 0 THEN 0 ELSE cs[ChannelIndex(cs, key)].totalMessages

\* the step in which a handleMessage call begins, in slot t
MessageArrives(t) == Starts(t) /\ tasks'[t].kind = "message"

\* C28: every handleMessage call adds exactly 1 to its channel's
\* totalMessages and sets the dirty flag in the step it begins with, ahead of
\* the catalog lookup; no later step of the call (cache hit, fetched,
\* not found, failed, no user id) adds to or takes from the total, so the
\* total of the channel is the number of messages handed in.
C28_MessageAlwaysCounted ==
    [][/\ \A t \in Tasks :
            MessageArrives(t) =>
                LET key == toLowerCase(tasks'[t].channel) IN
                /\ TotalMessagesOf(channelStats', key) = TotalMessagesOf(channelStats, key) + 1
                /\ isDirty'
                /\ tasks'[t].pc \in {"lookup", "resume"}
                /\ fetchCount' = fetchCount
       /\ (\A t \in Tasks : ~MessageArrives(t)) =>
              \A key \in ChannelKeys :
                  TotalMessagesOf(channelStats', key) = TotalMessagesOf(channelStats, key)
       /\ TotalMessagesOf(channelStats', "foo") = calls']_vars

\* two messages were handed in; the fetch of the first failed and the second
\* found no user id: both are counted, no emote is
C28_Witness ==
    \E t \in Tasks :
        /\ tasks[t].pc = "resume"
        /\ tasks[t].kind = "message"
        /\ tasks[t].outcome = "nouser"
        /\ lastFailed["foo"]
        /\ calls = 2
        /\ Len(channelStats) = 1
        /\ channelStats[1].totalMessages = 2
        /\ channelStats[1].totalEmotesUsed = 0
        /\ isDirty
        /\ "foo" \notin DOMAIN emoteCache

\* the names of the emotes of every catalog cached for the channel key so far
EverFetched(key) ==
    UNION { NamesOf(responses[key][k]) : k \in 1..Len(responses[key]) }

\* every counter of the store has been used and is named after an emote of a
\* catalog that was fetched for its channel
CountersFromCatalog ==
    \A i \in 1..Len(channelStats) :
        \A j \in 1..Len(channelStats[i].emotes) :
            /\ channelStats[i].emotes[j].count >= 1
            /\ channelStats[i].emotes[j].emoteName \in EverFetched(channelStats[i].channelName)

\* C38: in a store that started empty and is changed only through
\* handleMessage, every emote counter has a count of at least 1 and the name
\* of an emote of a catalog successfully fetched for its channel; a counter
\* is created or raised only when a message is matched, and then only for a
\* token of that message that is in the catalog snapshot returned for it.
C38_CountersFromCatalog ==
    [][/\ CountersFromCatalog'
       /\ \A t \in Tasks :
              Records(t) =>
                  LET key == toLowerCase(tasks[t].channel) IN
                  \A j \in 1..Len(EmotesOf(channelStats', key)) :
                      LET name == EmotesOf(channelStats', key)[j].emoteName IN
                      CountOf(channelStats', key, name) > CountOf(channelStats, key, name) =>
                          /\ name \in tasks[t].emotes
                          /\ name \in Tokens(tasks[t].text)
       /\ (\A t \in Tasks : ~Records(t)) =>
              \A key \in ChannelKeys :
                  EmotesOf(channelStats', key) = EmotesOf(channelStats, key)]_vars

\* the one message handled, "a, A<tab>a", was matched against the catalog
\* {A, a}: A and a have a counter, the token "a," has none
C38_Witness ==
    /\ calls = 1
    /\ \A t \in Tasks : tasks[t].pc = "idle"
    /\ Len(responses["foo"]) = 1
    /\ NamesOf(responses["foo"][1]) = {EmoteA, EmoteLowerA}
    /\ Len(EmotesOf(channelStats, "foo")) = 2
    /\ CountOf(channelStats, "foo", EmoteA) = 1
    /\ CountOf(channelStats, "foo", EmoteLowerA) = 1
    /\ CountOf(channelStats, "foo", <<"a", ",">>) = 0

----------------------------------------------------------------------------
(* Properties of the usage store and its persistence (SpecStore) *)

RECURSIVE SumCounts(_, _)
SumCounts(emotes, i) ==
    IF i > Len(emotes) THEN 0 ELSE emotes[i].count + SumCounts(emotes, i + 1)

\* C9: each channel's totalEmotesUsed equals the sum of count over the
\* channel's emote counters, in every state reached by recordMessage,
\* recordEmoteUsage, clearStats, saveStats and loadStats of a file the store wrote.
C9_TotalIsSum ==
    \A i \in 1..Len(channelStats) :
        channelStats[i].totalEmotesUsed = SumCounts(channelStats[i].emotes, 1)

\* the store loaded from the previous run's file, then one more use recorded
C9_Witness ==
    /\ calls = 2
    /\ loads = 0
    /\ Len(channelStats) = 1
    /\ Len(channelStats[1].emotes) = 2
    /\ channelStats[1].emotes[1].count = 2
    /\ channelStats[1].emotes[2].count = 1
    /\ channelStats[1].totalEmotesUsed = 3
    /\ channelStats[1].totalMessages = 1

\* the step is a call of recordMessage, recordEmoteUsage or clearStats
Mutates == calls' = calls + 1 /\ saves' = saves /\ loads' = loads

\* the step is the completion of a successful write of saveStats
WriteCompletes ==
    \E s \in Saves :
        /\ saves[s].pc = "write"
        /\ saves'[s].pc = "idle"
        /\ statsFile' = WrittenFile(saves[s].data)

\* the step is the completion of a loadStats that read a document
LoadCompletes == loads' = loads - 1 /\ statsFile.state = "ok"

\* C10 as claimed: every mutation sets the dirty flag, and the flag goes from
\* true to false only when a write of saveStats completes successfully.
C10_OnlySaveClears ==
    [][/\ Mutates => isDirty'
       /\ (isDirty /\ ~isDirty') => WriteCompletes]_vars

\* C10 as amended: every mutation sets the dirty flag, and the flag goes from
\* true to false only when a write of saveStats completes successfully or
\* when loadStats has read and installed a stored document.
C10_SaveOrLoadClears ==
    [][/\ Mutates => isDirty'
       /\ (isDirty /\ ~isDirty') => (WriteCompletes \/ LoadCompletes)]_vars

\* the store was changed, and a loadStats then installed the previous run's
\* document with the flag cleared; nothing has been written
C10_Witness ==
    /\ calls = 2
    /\ loads = 0
    /\ \A s \in Saves : saves[s].pc = "idle"
    /\ ~isDirty
    /\ statsFile = WrittenFile(PreviousDocument)
    /\ channelStats = PreviousStore.channelStats

\* the step in which the write of the saveStats call in slot s resolves
WriteResolves(s) ==
    saves[s].pc = "write" /\ saves'[s].pc = "idle" /\ writesDone' = writesDone + 1

\* C11: dirty-flag meaning.  A false flag with no save in flight means the
\* store equals the snapshot last written; equivalently, when the store was
\* changed by a record* call while a write was in flight, the flag is still
\* true after that write completes.
C11_DirtyMeansChanged ==
    [][\A s \in Saves :
         (WriteResolves(s) /\ channelStats' # saves[s].store) => isDirty']_vars

\* the totals and counts of a store: per channel its name, totalMessages,
\* totalEmotesUsed and the set of <<emoteName, count>> of its counters
Totals(cs) ==
    { << cs[i].channelName, cs[i].totalMessages, cs[i].totalEmotesUsed,
         { << cs[i].emotes[j].emoteName, cs[i].emotes[j].count >> :
               j \in 1..Len(cs[i].emotes) } >> : i \in 1..Len(cs) }

\* C17: round trip.  A loadStats that reads a file a successful saveStats
\* wrote yields, for every channel and emote, the totalMessages,
\* totalEmotesUsed and count the store had when it was saved, with no channel
\* or emote added or dropped, whatever the loading store held before; and
\* every store reached has a document that loads back to its own totals.
C17_RoundTrip ==
    [][/\ (LoadCompletes /\ savedStore # Undefined) =>
              /\ Totals(channelStats') = Totals(TheValue(savedStore))
              /\ Len(channelStats') = Len(TheValue(savedStore))
              /\ \A i \in 1..Len(channelStats') :
                     Len(channelStats'[i].emotes) = Len(TheValue(savedStore)[i].emotes)
       /\ Totals(Deserialize(Serialize(channelStats'))) = Totals(channelStats')
       /\ Len(Deserialize(Serialize(channelStats'))) = Len(channelStats')]_vars

\* an emote use was recorded, saved by this process and loaded back
C17_Witness ==
    /\ calls = 3
    /\ lastLoad = "ok"
    /\ loads = 0
    /\ writesDone = 1
    /\ AllSavesIdle
    /\ savedStore # Undefined
    /\ Len(channelStats) = 1
    /\ Len(channelStats[1].emotes) = 1
    /\ channelStats[1].emotes[1].count = 1
    /\ channelStats[1].totalEmotesUsed = 1
    /\ channelStats = TheValue(savedStore)
    /\ statsFile = WrittenFile(Serialize(channelStats))

\* the step in which a loadStats call resolves
LoadResolves == loads' = loads - 1

\* C18: when the storage file is absent, loadStats resolves without raising
\* an error and leaves the channels and the dirty flag as they were: a freshly
\* constructed service has no channels afterwards.
C18_AbsentFileLoad ==
    [][(LoadResolves /\ statsFile.state = "absent") =>
           /\ rejected' = rejected
           /\ isDirty' = isDirty
           /\ channelStats' = channelStats
           /\ (calls = 1 => channelStats' = << >>)]_vars

\* the first call on a new service was a loadStats that found no file
C18_Witness ==
    /\ calls = 1
    /\ loads = 0
    /\ lastLoad = "absent"
    /\ statsFile = AbsentFile
    /\ channelStats = << >>
    /\ ~isDirty
    /\ rejected = {}

\* the step in which the saveStats call in slot s builds its document
Serializes(s) == saves[s].pc = "mkdir" /\ saves'[s].pc = "write"

\* C21: no torn snapshot.  The document of a saveStats call is the whole
\* store, all channels at once, as it is at the one instant the call
\* serializes it; record* calls made while the call awaits mkdir or writeFile
\* change neither the document in flight nor the one the file ends up with.
C21_NoTornSnapshot ==
    [][\A s \in Saves :
         /\ Serializes(s) => /\ saves'[s].data = Serialize(channelStats)
                             /\ saves'[s].store = channelStats
                             /\ channelStats' = channelStats
         /\ (saves[s].pc = "write" /\ saves'[s].pc = "write") => saves'[s] = saves[s]
         /\ WriteResolves(s) => statsFile' = WrittenFile(Serialize(saves[s].store))]_vars

\* one channel was recorded before the call serialized the store and another
\* while its write was in flight: the file holds the first channel only
C21_Witness ==
    /\ calls = 3
    /\ writesDone = 1
    /\ AllSavesIdle
    /\ ~isDirty
    /\ savedStore # Undefined
    /\ Len(TheValue(savedStore)) = 1
    /\ Len(channelStats) = 2
    /\ statsFile = WrittenFile(Serialize(TheValue(savedStore)))
    /\ statsFile # WrittenFile(Serialize(channelStats))

\* C33: a successful loadStats replaces the store wholesale.  When a loadStats
\* call has read and parsed a stored document, the store is exactly what the
\* document describes and the dirty flag is false, whatever the store held
\* before: channels and counts recorded before the load resolved are gone
\* unless the file has them.
C33_LoadReplacesStore ==
    [][LoadCompletes =>
           /\ Serialize(channelStats') = statsFile.data
           /\ ~isDirty'
           /\ \A key \in ChannelKeys :
                  ChannelIndex(channelStats', key) # 0 <=>
                      \E i \in 1..Len(statsFile.data) : statsFile.data[i].channelName = key
           /\ savedStore # Undefined =>
                  Totals(channelStats') = Totals(TheValue(savedStore))]_vars

\* a message of "bar" was counted, and a loadStats then installed the previous
\* run's document, which knows only "foo": the bucket of "bar" is gone and the
\* flag is clear
C33_Witness ==
    /\ lastOp = StoreCall("recordMessage", "bar", << >>)
    /\ lastLoad = "ok"
    /\ loads = 0
    /\ ChannelIndex(channelStats, "bar") = 0
    /\ Serialize(channelStats) = PreviousDocument
    /\ ~isDirty

\* the step that runs a direct call of the store operation op
Calls(op) == Mutates /\ lastOp'.op = op

\* every bucket of before other than key's is in after, at its position and
\* unchanged, and after holds nothing more than these and a bucket of key
OtherChannelsKept(before, after, key) ==
    /\ Len(after) = Len(before) + (IF ChannelIndex(before, key) = 0 THEN 1 ELSE 0)
    /\ \A i \in 1..Len(before) :
           IF before[i].channelName = key THEN after[i].channelName = key
           ELSE after[i] = before[i]
    /\ after[Len(after)].channelName = key \/ Len(after) = Len(before)

\* every counter of before other than emoteName's is in after, at its position
\* and unchanged; emoteName's counter, if it was there, kept all but count
\* and lastUsed; after holds nothing more than these and emoteName's counter
OtherCountersKept(before, after, emoteName) ==
    /\ Len(after) = Len(before) + (IF EmoteIndex(before, emoteName) = 0 THEN 1 ELSE 0)
    /\ \A j \in 1..Len(before) :
           IF before[j].emoteName = emoteName
           THEN [after[j] EXCEPT !.count = before[j].count,
                                 !.lastUsed = before[j].lastUsed] = before[j]
           ELSE after[j] = before[j]
    /\ after[Len(after)].emoteName = emoteName \/ Len(after) = Len(before)

\* C29: frame of the record operations.  recordMessage(c) adds one to the
\* totalMessages of channel c and sets the dirty flag; recordEmoteUsage(c, e)
\* adds one to the count of c's counter e, sets its lastUsed, adds one to c's
\* totalEmotesUsed and sets the dirty flag.  Neither changes anything else:
\* the other total of c, the other counters of c, the other channels, the
\* order of channels and counters, and the catalog cache stay as they were.
C29_RecordFrame ==
    [][LET key == toLowerCase(lastOp'.channelName)
           e == lastOp'.emoteName
       IN /\ Calls("recordMessage") =>
                /\ TotalMessagesOf(channelStats', key) = TotalMessagesOf(channelStats, key) + 1
                /\ TotalEmotesOf(channelStats', key) = TotalEmotesOf(channelStats, key)
                /\ EmotesOf(channelStats', key) = EmotesOf(channelStats, key)
                /\ OtherChannelsKept(channelStats, channelStats', key)
                /\ isDirty'
                /\ UNCHANGED cacheVars
          /\ Calls("recordEmoteUsage") =>
                /\ CountOf(channelStats', key, e) = CountOf(channelStats, key, e) + 1
                /\ EmotesOf(channelStats', key)[EmoteIndex(EmotesOf(channelStats', key), e)]
                       .lastUsed = now
                /\ TotalEmotesOf(channelStats', key) = TotalEmotesOf(channelStats, key) + 1
                /\ TotalMessagesOf(channelStats', key) = TotalMessagesOf(channelStats, key)
                /\ OtherCountersKept(EmotesOf(channelStats, key),
                                     EmotesOf(channelStats', key), e)
                /\ OtherChannelsKept(channelStats, channelStats', key)
                /\ isDirty'
                /\ UNCHANGED cacheVars]_vars

\* both channels have a bucket and "foo" holds both counters; the latest call
\* recorded a usage in "foo" and left the message count of "bar" and the
\* first counter of "foo" as they were
C29_Witness ==
    /\ lastOp = StoreCall("recordEmoteUsage", "Foo", EmoteLowerA)
    /\ Len(channelStats) = 2
    /\ TotalMessagesOf(channelStats, "bar") = 1
    /\ Len(EmotesOf(channelStats, "foo")) = 2
    /\ CountOf(channelStats, "foo", EmoteA) = 1
    /\ CountOf(channelStats, "foo", EmoteLowerA) = 1
    /\ TotalEmotesOf(channelStats, "foo") = 2
    /\ TotalMessagesOf(channelStats, "foo") = 0

----------------------------------------------------------------------------
(* Properties of the query operations (SpecQuery) *)

\* the step is a call of a query operation
QueryRuns == query'.n = query.n + 1

\* C23: the query operations are read-only.  getChannelStats, getAllStats,
\* getTopEmotes, getTopEmotesForChannel and exportStats leave the channels,
\* their totals, their counters, the iteration order of channels and counters
\* (channelStats is the sequence of entries in that order) and the dirty flag
\* as they were.
C23_QueriesReadOnly ==
    [][QueryRuns => /\ channelStats' = channelStats
                    /\ isDirty' = isDirty
                    /\ cacheVars' = cacheVars
                    /\ persistVars' = persistVars]_vars

\* getTopEmotesForChannel has returned a (count 3) in front of A (count 1), and
\* the channel's Map still iterates A first
C23_Witness ==
    /\ query.op = "getTopEmotesForChannel"
    /\ query.limit = 2
    /\ Len(query.result) = 2
    /\ query.result[1].emoteName = EmoteLowerA
    /\ query.result[1].count = 3
    /\ query.result[2].emoteName = EmoteA
    /\ Len(channelStats) = 1
    /\ channelStats[1].emotes[1].emoteName = EmoteA
    /\ channelStats[1].emotes[2].emoteName = EmoteLowerA
    /\ channelStats = query.seen

\* the counters of a store, each named by the position of its channel and its
\* own position in the channel: iteration goes by channel, then by counter
Counters(cs) == UNION { { <<i, j>> : j \in 1..Len(cs[i].emotes) } : i \in 1..Len(cs) }

CounterAt(cs, p) == cs[p[1]].emotes[p[2]]

IteratedBefore(p, q) == p[1] < q[1] \/ (p[1] = q[1] /\ p[2] < q[2])

\* counter p ranks in front of counter q: higher count, or equal count and
\* earlier in iteration order
RanksBefore(cs, p, q) ==
    \/ CounterAt(cs, p).count > CounterAt(cs, q).count
    \/ CounterAt(cs, p).count = CounterAt(cs, q).count /\ IteratedBefore(p, q)

\* result lists the min(limit, number of counters) best-ranked of the given
\* counters, best first
IsTop(result, cs, counters, limit) ==
    /\ Len(result) = IF limit < Cardinality(counters) THEN limit ELSE Cardinality(counters)
    /\ \A k \in 1..Len(result) : \E p \in counters : CounterAt(cs, p) = result[k]
    /\ LET at == [k \in 1..Len(result) |->
                     CHOOSE p \in counters : CounterAt(cs, p) = result[k]]
       IN /\ \A k, l \in 1..Len(result) : k < l => RanksBefore(cs, at[k], at[l])
          /\ \A p \in counters \ {at[k] : k \in 1..Len(result)} :
                 \A k \in 1..Len(result) : RanksBefore(cs, at[k], p)

\* C24: getTopEmotes(limit) returns, for limit >= 0, the min(limit, number of
\* counters) counters with the highest count over all channels, highest
\* first, ties in channel / counter iteration order; getTopEmotesForChannel
\* does so for the counters of one channel; a call repeated with the same
\* arguments on an unchanged store returns the same sequence.
C24_TopEmotes ==
    [][QueryRuns =>
         /\ query'.op = "getTopEmotes" =>
                IsTop(query'.result, channelStats, Counters(channelStats), query'.limit)
         /\ query'.op = "getTopEmotesForChannel" =>
                IsTop(query'.result, channelStats,
                      { p \in Counters(channelStats) :
                            channelStats[p[1]].channelName = toLowerCase(query'.channel) },
                      query'.limit)
         /\ (/\ query'.op \in {"getTopEmotes", "getTopEmotesForChannel"}
             /\ query'.op = query.op
             /\ query'.channel = query.channel
             /\ query'.limit = query.limit
             /\ query.seen = channelStats) => query'.result = query.result]_vars

\* three counters of two channels tie at count 1: getTopEmotes(2), called
\* twice, has returned the first two in iteration order both times
C24_Witness ==
    /\ query.n = 2
    /\ query.op = "getTopEmotes"
    /\ query.limit = 2
    /\ Len(channelStats) = 2
    /\ Cardinality(Counters(channelStats)) = 3
    /\ \A p \in Counters(channelStats) : CounterAt(channelStats, p).count = 1
    /\ query.seen = channelStats
    /\ query.result = << channelStats[1].emotes[1], channelStats[1].emotes[2] >>

----------------------------------------------------------------------------
(* Properties of autosave and shutdown (SpecLife) *)

\* the step in which the saveStats call in slot s ends in its catch block
SaveFails(s) ==
    saves[s].pc \in {"mkdir", "write"} /\ saves'[s].pc = "idle" /\ writesDone' = writesDone

\* the step is an autosave tick
TickFires == ticks' = ticks + 1

\* the step starts a saveStats call for the given caller
SaveStarts(caller) ==
    \E s \in Saves :
        saves[s].pc = "idle" /\ saves'[s].pc = "mkdir" /\ saveCaller'[s] = caller

\* C12: when fs.mkdir or fs.writeFile fails inside saveStats, the call
\* resolves without throwing and leaves the dirty flag and the store as they
\* were, so a flag that was true stays true and the next autosave tick calls
\* saveStats again; when the write succeeds the flag is false on return.
C12_FailedSaveKeepsDirty ==
    [][/\ \A s \in Saves :
            SaveFails(s) => /\ storeVars' = storeVars
                            /\ (isDirty => isDirty')
                            /\ rejected' = rejected
                            /\ saveCaller'[s] = "none"
       /\ \A s \in Saves : WriteResolves(s) => ~isDirty'
       /\ (TickFires /\ isDirty) => SaveStarts("tick")]_vars

\* the save of the first tick failed, and the second tick, finding the flag
\* still true, has called saveStats again
C12_Witness ==
    /\ ticks = 2
    /\ lastTick.prevDirty
    /\ lastTick.quiet
    /\ lastTick.idle
    /\ lastTick.dirty
    /\ writesDone = 0
    /\ isDirty
    /\ \E s \in Saves : saves[s].pc = "mkdir" /\ saveCaller[s] = "tick"

\* C13 as claimed: dirty gating.  Two consecutive autosave ticks with no
\* record* call between them, the first finding the store dirty, result in
\* exactly one fs.writeFile call and the second tick calls no saveStats; a
\* tick that finds the flag false performs no write and changes no state.
C13_DirtyGating ==
    [][TickFires =>
         /\ (lastTick'.prevDirty /\ lastTick'.quiet) =>
                (lastTick'.between = 1 /\ ~isDirty)
         /\ ~isDirty => (storeVars' = storeVars /\ persistVars' = persistVars)]_vars

\* C13 as amended: the same, provided no saveStats was in flight at the first
\* tick and the save that tick called has resolved, its write done, before
\* the second tick fires.
C13_DirtyGatingSettled ==
    [][TickFires =>
         /\ (lastTick'.prevDirty /\ lastTick'.quiet /\ lastTick'.settled) =>
                (lastTick'.between = 1 /\ ~isDirty)
         /\ ~isDirty => (storeVars' = storeVars /\ persistVars' = persistVars)]_vars

\* the first tick found the store dirty and saved it; the second tick, with
\* no record* call in between, found the flag false and did nothing
C13_Witness ==
    /\ ticks = 2
    /\ lastTick.prevDirty
    /\ lastTick.quiet
    /\ lastTick.settled
    /\ lastTick.between = 1
    /\ ~lastTick.dirty
    /\ AllSavesIdle
    /\ writesIssued = 1
    /\ statsFile.state = "ok"
    /\ statsFile.data = Serialize(channelStats)

\* the step runs the shutdown handler up to stopAutoSave's await
StopRuns == signals' = signals + 1

\* the step ends the process
Exits == exited = "none" /\ exited' # "none"

\* the step in which the final saveStats of a stopAutoSave call resolves
FlushResolves ==
    \E s \in Saves : saveCaller[s] = "stop" /\ saves[s].pc # "idle" /\ saves'[s].pc = "idle"

C15_ExitLosesNothing ==
    exited = "written" => statsFile = WrittenFile(Serialize(channelStats))

\* C16: cancellation safety.  When the shutdown handler exits the process, no
\* saveStats has a write started and not yet completed, unless the dirty flag
\* is still true.
C16_NoWriteInFlightAtExit ==
    exited # "none" => (isDirty \/ \A s \in Saves : saves[s].pc # "write")

\* the saveStats calls whose fs.writeFile is pending
WritesInFlight == { s \in Saves : saves[s].pc = "write" }

\* C34: at most one fs.writeFile of saveStats to the statistics file is
\* pending at any time, whether the saves were called by autosave ticks or by
\* the shutdown flush.
C34_OneWriteInFlight == Cardinality(WritesInFlight) <= 1

\* C32: startup ordering.  No saveStats call issues its fs.writeFile while
\* main() still awaits the startup loadStats, whatever the order of messages,
\* timer ticks and the shutdown signal.
C32_NoWriteBeforeLoad ==
    [][\A s \in Saves : Serializes(s) => main # "load"]_vars

\* what does hold: the timer is not set while main() awaits loadStats, so no
\* save called by a tick writes before the load has resolved; the writes that
\* do are those of stopAutoSave
NoTickWriteBeforeLoad ==
    /\ main = "load" => ~saveInterval
    /\ \A s \in Saves : (main = "load" /\ saves[s].pc # "idle") => saveCaller[s] = "stop"

----------------------------------------------------------------------------
(* Properties of the channel keys (SpecKeys) *)

IsLowerCase(name) == toLowerCase(name) = name

\* every key of the store and of the three cache maps is lower case, and no
\* two buckets of the store carry the same name
KeysLowerCase ==
    /\ \A i \in 1..Len(channelStats) : IsLowerCase(channelStats[i].channelName)
    /\ \A i, j \in 1..Len(channelStats) :
           channelStats[i].channelName = channelStats[j].channelName => i = j
    /\ \A key \in (DOMAIN emoteCache) \cup (DOMAIN emoteMetadataCache)
                    \cup (DOMAIN cacheTimestamps) : IsLowerCase(key)

\* called in the present state with the names c and d, each operation
\* returns the same and leaves the same store and the same cache
SameBucket(c, d) ==
    /\ recordMessage(Store, c) = recordMessage(Store, d)
    /\ \A e \in EmoteNames :
           recordEmoteUsage(Store, c, e, Undefined, now)
               = recordEmoteUsage(Store, d, e, Undefined, now)
    /\ getChannelStats(Store, c) = getChannelStats(Store, d)
    /\ \A limit \in Limits :
           getTopEmotesForChannel(Store, c, limit) = getTopEmotesForChannel(Store, d, limit)
    /\ getCachedEmotes(c, now) = getCachedEmotes(d, now)
    /\ \A r \in Responses :
           FetchSucceeded(Caches, c, r, now) = FetchSucceeded(Caches, d, r, now)
    /\ \A e \in EmoteNames : getEmoteMetadata(c, e) = getEmoteMetadata(d, e)
    /\ getAllEmoteMetadata(Caches, c) = getAllEmoteMetadata(Caches, d)

\* C37: channel names are case-insensitive keys everywhere.  recordMessage,
\* recordEmoteUsage, getChannelStats, getTopEmotesForChannel,
\* fetchChannelEmotes, getEmoteMetadata and getAllEmoteMetadata, called with
\* names that differ only in letter case, read and write the same bucket and
\* the same cache entry, and every stored channelName is lower case.
C37_CaseInsensitiveKeys ==
    /\ KeysLowerCase
    /\ \A c, d \in ChannelNames : toLowerCase(c) = toLowerCase(d) => SameBucket(c, d)

\* the only record* call made was recordMessage("foo"); getChannelStats("Foo")
\* then returned the bucket with that message, and a catalog fetched for one
\* spelling is cached
C37_Witness ==
    /\ lastOp = StoreCall("recordMessage", "foo", << >>)
    /\ Len(channelStats) = 1
    /\ TotalMessagesOf(channelStats, "foo") = 1
    /\ query.op = "getChannelStats"
    /\ query.channel = "Foo"
    /\ query.result # Undefined
    /\ TheValue(query.result).totalMessages = 1
    /\ MapHas(emoteCache, "foo")

----------------------------------------------------------------------------
(* Properties of the autosave timer (SpecTimer) *)

\* the step that runs a direct call of startAutoSave / stopAutoSave
StartCalled == calls' = calls + 1 /\ lastOp'.op = "startAutoSave"
StopCalled == calls' = calls + 1 /\ lastOp'.op = "stopAutoSave"

\* C35: at most one autosave timer exists at any time, and the service holds
\* a handle exactly while one exists.  startAutoSave called while a timer is
\* active creates no second one; once stopAutoSave has run no timer is active;
\* and a timer comes into being only in a call of startAutoSave.
C35_OneTimer ==
    [][/\ timers' <= 1
       /\ saveInterval' <=> timers' = 1
       /\ StartCalled => timers' = 1
       /\ (StartCalled /\ timers = 1) => UNCHANGED <<timers, saveInterval>>
       /\ StopCalled => timers' = 0
       /\ timers' > timers => StartCalled
       /\ (ticks' # ticks) => timers = 1]_vars

\* startAutoSave, recordMessage, startAutoSave: a tick fired before the
\* message was counted, so the timer was running when startAutoSave was
\* called the second time, and one timer is active
C35_Witness ==
    /\ calls = 3
    /\ lastOp.op = "startAutoSave"
    /\ isDirty
    /\ lastTick.seen
    /\ ~lastTick.dirty
    /\ writesIssued = 0
    /\ AllSavesIdle
    /\ timers = 1
    /\ saveInterval

----------------------------------------------------------------------------
(* Properties of the dashboard's /api/stats (SpecDashboard) *)

\* the step in which a GET /api/stats request is served
ServesStats == query'.n = query.n + 1 /\ query'.op = "handleStatsAPI"

\* the entries of a list that carry the name emoteName
EntriesOf(emotes, emoteName) ==
    { j \in 1..Len(emotes) : emotes[j].emoteName = emoteName }

\* the list has exactly one entry per emote of the catalog, with the count of
\* the emote's counter in the channel
ListsCatalog(listed, key) ==
    /\ \A name \in emoteCache[key] :
           \E j \in 1..Len(listed) :
               /\ EntriesOf(listed, name) = {j}
               /\ listed[j].count = CountOf(channelStats, key, name)
    /\ \A j \in 1..Len(listed) : listed[j].emoteName \in emoteCache[key]

\* every counter of the channel that has been used is in the list
ListsUsed(listed, key) ==
    \A j \in 1..Len(EmotesOf(channelStats, key)) :
        EmotesOf(channelStats, key)[j].count > 0 =>
            EntriesOf(listed, EmotesOf(channelStats, key)[j].emoteName) # {}

\* C31: /api/stats shows all emotes, used and unused.  For every channel of
\* the response that has a cached catalog, the emotes list has one entry per
\* catalog emote with the count of its usage counter (0 when never used),
\* every emote with a non-zero counter is in the list, and the listed counts
\* sum to the channel's totalEmotesUsed.
C31_AllEmotesListed ==
    [][ServesStats =>
         \A i \in 1..Len(channelStats) :
             LET key == channelStats[i].channelName
                 listed == query'.result.channels[i].emotes
             IN MapHas(emoteMetadataCache, key) =>
                    /\ ListsCatalog(listed, key)
                    /\ ListsUsed(listed, key)
                    /\ SumCounts(listed, 1) = channelStats[i].totalEmotesUsed]_vars

\* what does hold: the list is the cached catalog with the counts of the
\* counters, and it misses exactly the counters whose emote is not in the
\* cached catalog
CatalogEmotesListed ==
    [][ServesStats =>
         \A i \in 1..Len(channelStats) :
             LET key == channelStats[i].channelName
                 listed == query'.result.channels[i].emotes
             IN IF MapHas(emoteMetadataCache, key)
                THEN /\ ListsCatalog(listed, key)
                     /\ \A j \in 1..Len(channelStats[i].emotes) :
                            EntriesOf(listed, channelStats[i].emotes[j].emoteName) = {}
                                <=> channelStats[i].emotes[j].emoteName \notin emoteCache[key]
                ELSE /\ Len(listed) = Len(channelStats[i].emotes)
                     /\ SumCounts(listed, 1) = channelStats[i].totalEmotesUsed]_vars

----------------------------------------------------------------------------
(* Properties of persistence under a running timer (SpecPersist) *)

\* the store has seen at least n record* calls, those of the run that wrote
\* the file loaded at startup included
Recorded(n) == Mutations(channelStats, 1) >= n

\* a write has resolved whose document was serialized from a store that had
\* seen at least n record* calls, or the file found at startup is such a one
Persisted(n) ==
    savedStore # Undefined /\ Mutations(TheValue(savedStore), 1) >= n

MaxRecorded == MaxOps + Mutations(PreviousStore.channelStats, 1)

\* C30: eventual persistence.  While the autosave timer runs, every
\* recordMessage / recordEmoteUsage call is eventually followed by a write
\* that resolves with a document serialized after the call, whether or not
\* another record* call follows.
C30_EventualPersistence ==
    \A n \in 1..MaxRecorded : Recorded(n) ~> Persisted(n)

\* a record* call has had its flag cleared by the completion of a write that
\* was serialized before it: the flag is down and the store has seen more
\* calls than any document written
FlagCleared(n) == ~isDirty /\ Recorded(n) /\ ~Persisted(n)

\* what does hold: a record* call is eventually followed by such a write
\* unless its flag is cleared first
PersistedUnlessFlagCleared ==
    \A n \in 1..MaxRecorded : Recorded(n) ~> (Persisted(n) \/ FlagCleared(n))

----------------------------------------------------------------------------
(* Properties of error handling across the core functions (SpecFailures) *)

\* C19: no core failure escapes.  Whatever the user-id lookup, the registry
\* fetch, the storage write and the storage read do (a missing or malformed
\* file included), the promises of fetchChannelEmotes, preloadChannelEmotes,
\* saveStats, loadStats and handleMessage resolve: none of them rejects.
C19_NothingEscapes == rejected = {}

\* a handleMessage call has had its registry fetch fail, a loadStats has read
\* a file it could not use, and a saveStats has had its write fail
C19_Witness ==
    /\ rejected = {}
    /\ \E t \in Tasks :
           /\ tasks[t].kind = "message"
           /\ tasks[t].pc = "resume"
           /\ tasks[t].outcome = "failed"
    /\ lastLoad = "malformed"
    /\ loads = 0
    /\ statsFile = CorruptFile
    /\ AllSavesIdle
    /\ writesIssued = 1
    /\ writesDone = 0

====
